---- MODULE Spec2Model ----
(***************************************************************************)
(* Model of the decimal-safe arithmetic engine of fs-utils-lib             *)
(* (getDecimalPlaces, preciseAdd, preciseSubtract, preciseMultiply,        *)
(* preciseDivide, preciseCalculate and the fluent Calculator).             *)
(*                                                                         *)
(* A JavaScript number is an IEEE-754 binary64 value.  It is modelled as   *)
(* a record [s, m, e] denoting (-1)^s * m * 2^e, where m is an arbitrary   *)
(* precision natural (a little-endian sequence of base-2^15 limbs) that is *)
(* odd or zero, so that equal numbers are equal records.  Every arithmetic *)
(* operation computes the exact result and rounds it to 53 significant     *)
(* bits, ties to even, as the hardware does; Math.pow is computed by the   *)
(* engine's own algorithm, whose result is not always the nearest number.  *)
(* Values outside the normal range (subnormals, infinities, NaN) are       *)
(* outside the modelled inputs of the arithmetic.                          *)
(***************************************************************************)
EXTENDS Integers, Sequences, FiniteSets, TLC

(***************************************************************************)
(* Arbitrary precision naturals.                                           *)
(***************************************************************************)
Base == 32768
LimbBits == 15

RECURSIVE Pow2Small(_)
Pow2Small(k) == IF k = 0 THEN 1 ELSE 2 * Pow2Small(k - 1)

RECURSIVE BNorm(_)
BNorm(a) ==
  IF Len(a) = 0 THEN a
  ELSE IF a[Len(a)] = 0 THEN BNorm(SubSeq(a, 1, Len(a) - 1)) ELSE a

BFromInt(n) ==
  IF n = 0 THEN << >>
  ELSE IF n < Base THEN << n >>
  ELSE IF n < Base * Base THEN << n % Base, n \div Base >>
  ELSE << n % Base, (n \div Base) % Base, n \div (Base * Base) >>

BIsZero(a) == Len(a) = 0

Limb(a, i) == IF i >= 1 /\ i <= Len(a) THEN a[i] ELSE 0

RECURSIVE BCmpFrom(_, _, _)
BCmpFrom(a, b, i) ==
  IF i = 0 THEN 0
  ELSE IF a[i] > b[i] THEN 1
  ELSE IF a[i] < b[i] THEN -1
  ELSE BCmpFrom(a, b, i - 1)

BCmp(a, b) ==
  IF Len(a) > Len(b) THEN 1
  ELSE IF Len(a) < Len(b) THEN -1
  ELSE BCmpFrom(a, b, Len(a))

\* Propagates carries through a sequence of limbs each below 2^31 - Base.
\* (The first test is never true: it has the carry and the limbs so far
\* computed before the next step, as in BSubFrom and BDivSmallFrom.)
RECURSIVE BCarry(_, _, _, _)
BCarry(r, i, c, acc) ==
  IF Len(acc) + c < 0 THEN << >>
  ELSE IF i > Len(r)
  THEN IF c = 0 THEN acc ELSE BCarry(r, i, c \div Base, Append(acc, c % Base))
  ELSE LET t == r[i] + c
       IN  BCarry(r, i + 1, t \div Base, Append(acc, t % Base))

Max(x, y) == IF x >= y THEN x ELSE y
Min(x, y) == IF x <= y THEN x ELSE y

BAdd(a, b) ==
  BCarry([i \in 1..Max(Len(a), Len(b)) |-> Limb(a, i) + Limb(b, i)], 1, 0, << >>)

\* a - b for a >= b.
RECURSIVE BSubFrom(_, _, _, _, _)
BSubFrom(a, b, i, borrow, acc) ==
  IF Len(acc) + borrow < 0 THEN << >>
  ELSE IF i > Len(a) THEN acc
  ELSE LET t == a[i] - Limb(b, i) - borrow
       IN  IF t < 0
           THEN BSubFrom(a, b, i + 1, 1, Append(acc, t + Base))
           ELSE BSubFrom(a, b, i + 1, 0, Append(acc, t))

BSub(a, b) == BNorm(BSubFrom(a, b, 1, 0, << >>))

\* a * k for 0 <= k < Base.
BMulSmall(a, k) ==
  IF k = 0 THEN << >>
  ELSE BNorm(BCarry([i \in 1..(Len(a) + 1) |->
                       ((Limb(a, i) * k) % Base) + ((Limb(a, i - 1) * k) \div Base)],
                    1, 0, << >>))

RECURSIVE ColLo(_, _, _, _)
ColLo(a, b, k, i) ==
  IF i > Len(a) THEN 0
  ELSE (IF k + 1 - i >= 1 /\ k + 1 - i <= Len(b)
        THEN (a[i] * b[k + 1 - i]) % Base ELSE 0) + ColLo(a, b, k, i + 1)

RECURSIVE ColHi(_, _, _, _)
ColHi(a, b, k, i) ==
  IF i > Len(a) THEN 0
  ELSE (IF k + 1 - i >= 1 /\ k + 1 - i <= Len(b)
        THEN (a[i] * b[k + 1 - i]) \div Base ELSE 0) + ColHi(a, b, k, i + 1)

BMul(a, b) ==
  IF Len(a) = 0 \/ Len(b) = 0 THEN << >>
  ELSE BNorm(BCarry([k \in 1..(Len(a) + Len(b)) |->
                       ColLo(a, b, k, 1) + ColHi(a, b, k - 1, 1)], 1, 0, << >>))

RECURSIVE SmallBitLen(_)
SmallBitLen(n) == IF n = 0 THEN 0 ELSE 1 + SmallBitLen(n \div 2)

BBitLen(a) ==
  IF Len(a) = 0 THEN 0 ELSE (Len(a) - 1) * LimbBits + SmallBitLen(a[Len(a)])

\* a * 2^k.
BShl(a, k) ==
  IF Len(a) = 0 THEN a
  ELSE LET q == k \div LimbBits
           r == k % LimbBits
           p == Pow2Small(r)
           d == Pow2Small(LimbBits - r)
       IN  BNorm([i \in 1..(Len(a) + q + 1) |->
                    IF i <= q THEN 0
                    ELSE ((Limb(a, i - q) % d) * p) + (Limb(a, i - q - 1) \div d)])

\* floor(a / 2^k).
BShr(a, k) ==
  LET q == k \div LimbBits
      r == k % LimbBits
      p == Pow2Small(r)
      d == Pow2Small(LimbBits - r)
  IN  IF Len(a) <= q THEN << >>
      ELSE BNorm([i \in 1..(Len(a) - q) |->
                    (Limb(a, i + q) \div p) + ((Limb(a, i + q + 1) % p) * d)])

\* bit k (0 = least significant) of a.
BBit(a, k) == (Limb(a, (k \div LimbBits) + 1) \div Pow2Small(k % LimbBits)) % 2

\* TRUE iff a mod 2^k # 0.
RECURSIVE LowLimbsNonzero(_, _)
LowLimbsNonzero(a, n) ==
  IF n = 0 THEN FALSE
  ELSE IF Limb(a, n) # 0 THEN TRUE ELSE LowLimbsNonzero(a, n - 1)

BLowNonzero(a, k) ==
  \/ LowLimbsNonzero(a, k \div LimbBits)
  \/ (Limb(a, (k \div LimbBits) + 1) % Pow2Small(k % LimbBits)) # 0

RECURSIVE SmallTrailingZeros(_)
SmallTrailingZeros(n) == IF n % 2 = 1 THEN 0 ELSE 1 + SmallTrailingZeros(n \div 2)

RECURSIVE BTrailingZerosFrom(_, _)
BTrailingZerosFrom(a, i) ==
  IF a[i] = 0 THEN LimbBits + BTrailingZerosFrom(a, i + 1)
  ELSE SmallTrailingZeros(a[i])

BTrailingZeros(a) == IF Len(a) = 0 THEN 0 ELSE BTrailingZerosFrom(a, 1)

\* Quotient and remainder of a by a small divisor 0 < k < Base.
RECURSIVE BDivSmallFrom(_, _, _, _, _)
BDivSmallFrom(a, k, i, rem, acc) ==
  IF Len(acc) + rem < 0 THEN [q |-> << >>, r |-> 0]
  ELSE IF i = 0 THEN [q |-> BNorm(acc), r |-> rem]
  ELSE LET t == rem * Base + a[i]
       IN  BDivSmallFrom(a, k, i - 1, t % k, << t \div k >> \o acc)

BDivSmall(a, k) == BDivSmallFrom(a, k, Len(a), 0, << >>)

\* The largest q <= guess with d * q <= r.
RECURSIVE QFix(_, _, _)
QFix(r, d, guess) ==
  IF BCmp(BMulSmall(d, guess), r) > 0 THEN QFix(r, d, guess - 1) ELSE guess

\* Schoolbook long division, one quotient limb per step, most significant
\* first; the top limb of d is at least Base / 2, so that the guess made from
\* the leading limbs exceeds the quotient limb by at most 2.
RECURSIVE BDivLong(_, _, _, _, _)
BDivLong(n, d, i, r, q) ==
  IF i = 0 THEN [q |-> BNorm(q), r |-> r]
  ELSE LET r1 == BNorm(<< n[i] >> \o r)
           ld == Len(d)
           qh == IF BCmp(r1, d) < 0 THEN 0
                 ELSE QFix(r1, d, Min(Base - 1,
                             (Limb(r1, ld + 1) * Base + Limb(r1, ld)) \div d[ld]))
           r2 == IF qh = 0 THEN r1 ELSE BSub(r1, BMulSmall(d, qh))
           q2 == << qh >> \o q
       IN  IF Len(r2) + Len(q2) >= 0 THEN BDivLong(n, d, i - 1, r2, q2) ELSE << >>

\* The result dm of a division whose operands were both multiplied by 2^sh,
\* as the result of the division itself.
BUnshiftRemainder(dm, sh) == [q |-> dm.q, r |-> BShr(dm.r, sh)]

\* The leading Len(ds) - 1 limbs of ns are below ds: the division starts
\* with them as the remainder.
BDivModShifted(ns, ds, sh) ==
  IF Len(ns) < Len(ds) THEN [q |-> << >>, r |-> BShr(ns, sh)]
  ELSE BUnshiftRemainder(BDivLong(ns, ds, Len(ns) - Len(ds) + 1,
                                  BNorm(SubSeq(ns, Len(ns) - Len(ds) + 2, Len(ns))),
                                  << >>), sh)

BBigRemainder(dm) == [q |-> dm.q, r |-> BFromInt(dm.r)]

\* Quotient and remainder of n by d # 0.
BDivMod(n, d) ==
  IF Len(d) = 1 THEN BBigRemainder(BDivSmall(n, d[1]))
  ELSE LET sh == LimbBits - SmallBitLen(d[Len(d)])
       IN  BDivModShifted(BShl(n, sh), BShl(d, sh), sh)

\* k^n for 0 < k < Base, by repeated squaring.
RECURSIVE BPow(_, _)
BPow(k, n) ==
  IF n = 0 THEN << 1 >>
  ELSE LET h  == BPow(k, n \div 2)
           sq == BMul(h, h)
       IN  IF n % 2 = 1 THEN BMulSmall(sq, k) ELSE sq

(***************************************************************************)
(* IEEE-754 binary64 numbers: [s, m, e] is (-1)^s * m * 2^e with m odd, or *)
(* m = << >> and e = 0 for the two zeros.                                  *)
(***************************************************************************)
MantBits == 53

FZero(s) == [s |-> s, m |-> << >>, e |-> 0]

FCanon(s, M, E) ==
  IF BIsZero(M) THEN FZero(s)
  ELSE LET tz == BTrailingZeros(M)
       IN  [s |-> s, m |-> BShr(M, tz), e |-> E + tz]

\* The binary64 nearest to (-1)^s * (M + t) * 2^E, ties to even, where
\* 0 < t < 1 when sticky and t = 0 otherwise; with sticky, M has more than
\* MantBits + 1 bits.
FRound(s, M, E, sticky) ==
  LET L == BBitLen(M)
  IN  IF L <= MantBits THEN FCanon(s, M, E)
      ELSE LET k  == L - MantBits
               q  == BShr(M, k)
               g  == BBit(M, k - 1)
               st == sticky \/ BLowNonzero(M, k - 1)
               up == g = 1 /\ (st \/ BBit(q, 0) = 1)
           IN  FCanon(s, IF up THEN BAdd(q, << 1 >>) ELSE q, E + k)

\* The binary64 nearest to (-1)^s * (dm.q + t) * 2^E, where 0 < t < 1 when the
\* division left a remainder dm.r and t = 0 otherwise.
FRoundQuotient(s, dm, E) == FRound(s, dm.q, E, ~BIsZero(dm.r))

\* The binary64 nearest to (-1)^s * (N / D) * 2^E, for N, D # 0.
FRatio(s, N, D, E) ==
  LET k == Max(0, MantBits + 3 + BBitLen(D) - BBitLen(N))
  IN  FRoundQuotient(s, BDivMod(BShl(N, k), D), E - k)

FIsZero(x) == BIsZero(x.m)
FNeg(x) == [x EXCEPT !.s = 1 - x.s]
FAbs(x) == [x EXCEPT !.s = 0]

\* x < 0 as the language compares numbers (-0 is not below 0).
FIsNegative(x) == x.s = 1 /\ ~FIsZero(x)

FMul(x, y) ==
  LET s == (x.s + y.s) % 2
  IN  IF FIsZero(x) \/ FIsZero(y) THEN FZero(s)
      ELSE FRound(s, BMul(x.m, y.m), x.e + y.e, FALSE)

FAdd(x, y) ==
  IF FIsZero(x) /\ FIsZero(y) THEN FZero(IF x.s = 1 /\ y.s = 1 THEN 1 ELSE 0)
  ELSE IF FIsZero(x) THEN y
  ELSE IF FIsZero(y) THEN x
  ELSE LET E  == Min(x.e, y.e)
           X  == BShl(x.m, x.e - E)
           Y  == BShl(y.m, y.e - E)
           c  == BCmp(X, Y)
       IN  IF x.s = y.s THEN FRound(x.s, BAdd(X, Y), E, FALSE)
           ELSE IF c = 0 THEN FZero(0)
           ELSE IF c > 0 THEN FRound(x.s, BSub(X, Y), E, FALSE)
           ELSE FRound(y.s, BSub(Y, X), E, FALSE)

FSub(x, y) == FAdd(x, FNeg(y))

\* x / y for y # 0.
FDiv(x, y) ==
  LET s == (x.s + y.s) % 2
  IN  IF FIsZero(x) THEN FZero(s)
      ELSE FRatio(s, x.m, y.m, x.e - y.e)

\* The number written as the decimal literal n / 10^pl, for an integer n.
FInt(n) == FCanon(IF n < 0 THEN 1 ELSE 0, BFromInt(IF n < 0 THEN -n ELSE n), 0)

(***************************************************************************)
(* Math.round, Math.floor, Math.ceil and Math.sqrt.                        *)
(***************************************************************************)
\* Math.round: the nearest integer, a tie going towards +infinity.
MathRound(x) ==
  IF FIsZero(x) \/ x.e >= 0 THEN x
  ELSE LET k    == -x.e
           ip   == BShr(x.m, k)
           half == BBit(x.m, k - 1) = 1
           rest == BLowNonzero(x.m, k - 1)
       IN  IF x.s = 0
           THEN FCanon(0, IF half THEN BAdd(ip, << 1 >>) ELSE ip, 0)
           ELSE FCanon(1, IF half /\ rest THEN BAdd(ip, << 1 >>) ELSE ip, 0)

MathFloor(x) ==
  IF FIsZero(x) \/ x.e >= 0 THEN x
  ELSE LET ip == BShr(x.m, -x.e)
       IN  IF x.s = 0 THEN FCanon(0, ip, 0) ELSE FCanon(1, BAdd(ip, << 1 >>), 0)

MathCeil(x) ==
  IF FIsZero(x) \/ x.e >= 0 THEN x
  ELSE LET ip == BShr(x.m, -x.e)
       IN  IF x.s = 0 THEN FCanon(0, BAdd(ip, << 1 >>), 0) ELSE FCanon(1, ip, 0)

\* floor(sqrt(n)), one result bit per step.
RECURSIVE BSqrtFrom(_, _, _)
BSqrtFrom(n, i, r) ==
  IF i < 0 THEN r
  ELSE LET c  == BAdd(r, BShl(<< 1 >>, i))
           r2 == IF BCmp(BMul(c, c), n) <= 0 THEN c ELSE r
       IN  IF Len(r2) >= 0 THEN BSqrtFrom(n, i - 1, r2) ELSE << >>

BSqrt(n) == BSqrtFrom(n, (BBitLen(n) + 1) \div 2, << >>)

\* The binary64 nearest to sqrt(M) * 2^E, where r = floor(sqrt(M)).
FRoundRoot(M, r, E) == FRound(0, r, E, BCmp(BMul(r, r), M) # 0)

FSqrtScaled(M, E) == FRoundRoot(M, BSqrt(M), E)

\* Math.sqrt for x >= 0: the correctly rounded square root.
MathSqrt(x) ==
  IF FIsZero(x) THEN x
  ELSE LET k0 == Max(0, 2 * (MantBits + 2) - BBitLen(x.m))
           k  == k0 + ((x.e - k0) % 2)
       IN  FSqrtScaled(BShl(x.m, k), (x.e - k) \div 2)

(***************************************************************************)
(* Math.pow, as the engine computes it: the two words of a binary64 are    *)
(* read and written (the high word holds the sign, the exponent and the    *)
(* top 20 fraction bits), log2(|x|) is computed in two parts, multiplied   *)
(* by y, and 2 is raised to the product.  The result is within one unit in *)
(* the last place of x^y, and is not always the nearest binary64.          *)
(***************************************************************************)
BToInt(a) == Limb(a, 1) + Limb(a, 2) * Base + Limb(a, 3) * Base * Base

\* The leading k bits of a # 0, as a k-bit natural.
BTopBits(a, k) ==
  IF BBitLen(a) >= k THEN BShr(a, BBitLen(a) - k) ELSE BShl(a, k - BBitLen(a))

\* floor(log2(|x|)) for x # 0.
FExponent(x) == BBitLen(x.m) + x.e - 1

\* x * 2^k.
FScale(x, k) == IF FIsZero(x) THEN x ELSE [x EXCEPT !.e = @ + k]

\* The high word of |x|: the biased exponent and the top 20 fraction bits.
HighWord(x) ==
  IF FIsZero(x) THEN 0
  ELSE (FExponent(x) + 1023) * 1048576 + (BToInt(BTopBits(x.m, 21)) - 1048576)

\* The number of sign s whose high word is hw and whose low word is zero.
FromHighWord(s, hw) ==
  IF hw = 0 THEN FZero(s)
  ELSE FCanon(s, BFromInt(1048576 + (hw % 1048576)), (hw \div 1048576) - 1043)

\* x with its low word cleared: x truncated to 21 significant bits.
ClearLowWord(x) ==
  IF BBitLen(x.m) <= 21 THEN x
  ELSE FCanon(x.s, BShr(x.m, BBitLen(x.m) - 21), x.e + BBitLen(x.m) - 21)

\* The number of sign s with high word hw and low word lh * 2^16 + ll.
FWords(s, hw, lh, ll) ==
  FCanon(s, BAdd(BShl(BFromInt(1048576 + (hw % 1048576)), 32),
                 BAdd(BShl(BFromInt(lh), 16), BFromInt(ll))),
         (hw \div 1048576) - 1075)

\* dp_h[1] = 5.84962487220764160156e-01, the words 0x3FE2B803, 0x40000000
Pow_dp_h1 == FWords(0, 1071822851, 16384, 0)

\* dp_l[1] = 1.35003920212974897128e-08, the words 0x3E4CFDEB, 0x43CFD006
Pow_dp_l1 == FWords(0, 1045233131, 17359, 53254)

\* L1 = 5.99999999999994648725e-01, the words 0x3FE33333, 0x33333303
Pow_L1 == FWords(0, 1071854387, 13107, 13059)

\* L2 = 4.28571428578550184252e-01, the words 0x3FDB6DB6, 0xDB6FABFF
Pow_L2 == FWords(0, 1071345078, 56175, 44031)

\* L3 = 3.33333329818377432918e-01, the words 0x3FD55555, 0x518F264D
Pow_L3 == FWords(0, 1070945621, 20879, 9805)

\* L4 = 2.72728123808534006489e-01, the words 0x3FD17460, 0xA91D4101
Pow_L4 == FWords(0, 1070691424, 43293, 16641)

\* L5 = 2.30660745775561754067e-01, the words 0x3FCD864A, 0x93C9DB65
Pow_L5 == FWords(0, 1070433866, 37833, 56165)

\* L6 = 2.06975017800338417784e-01, the words 0x3FCA7E28, 0x4A454EEF
Pow_L6 == FWords(0, 1070235176, 19013, 20207)

\* P1 = 1.66666666666666019037e-01, the words 0x3FC55555, 0x5555553E
Pow_P1 == FWords(0, 1069897045, 21845, 21822)

\* P2 = -2.77777777770155933842e-03, the words 0xBF66C16C, 0x16BEBD93
Pow_P2 == FWords(1, 1063698796, 5822, 48531)

\* P3 = 6.61375632143793436117e-05, the words 0x3F11566A, 0xAF25DE2C
Pow_P3 == FWords(0, 1058100842, 44837, 56876)

\* P4 = -1.65339022054652515390e-06, the words 0xBEBBBD41, 0xC5D26BF1
Pow_P4 == FWords(1, 1052491073, 50642, 27633)

\* P5 = 4.13813679705723846039e-08, the words 0x3E663769, 0x72BEA4D0
Pow_P5 == FWords(0, 1046886249, 29374, 42192)

\* lg2 = 6.93147180559945286227e-01, the words 0x3FE62E42, 0xFEFA39EF
Pow_lg2 == FWords(0, 1072049730, 65274, 14831)

\* lg2_h = 6.93147182464599609375e-01, the words 0x3FE62E43, 0x00000000
Pow_lg2_h == FWords(0, 1072049731, 0, 0)

\* lg2_l = -1.90465429995776804525e-09, the words 0xBE205C61, 0x0CA86C39
Pow_lg2_l == FWords(1, 1042308193, 3240, 27705)

\* cp = 9.61796693925975554329e-01, the words 0x3FEEC709, 0xDC3A03FD
Pow_cp == FWords(0, 1072613129, 56378, 1021)

\* cp_h = 9.61796700954437255859e-01, the words 0x3FEEC709, 0xE0000000
Pow_cp_h == FWords(0, 1072613129, 57344, 0)

\* cp_l = -7.02846165095275826516e-09, the words 0xBE3E2FE0, 0x145B01F5
Pow_cp_l == FWords(1, 1044262880, 5211, 501)

\* bp[k], dp_h[k] and dp_l[k]: 1 or 1.5, and log2(bp[k]) in two parts.
Pow_bp(k) == IF k = 1 THEN FCanon(0, << 3 >>, -1) ELSE FInt(1)
Pow_dp_h(k) == IF k = 1 THEN Pow_dp_h1 ELSE FZero(0)
Pow_dp_l(k) == IF k = 1 THEN Pow_dp_l1 ELSE FZero(0)

\* The algorithm is straight-line code over double variables: an instruction
\* << d, op, a, b >> is the assignment d = a op b, and << d, "high", a, a >>
\* is d = a followed by SET_LOW_WORD(d, 0).
PowApply(op, x, y) ==
  CASE op = "+" -> FAdd(x, y)
    [] op = "-" -> FSub(x, y)
    [] op = "*" -> FMul(x, y)
    [] op = "/" -> FDiv(x, y)
    [] op = "high" -> ClearLowWord(x)

\* One instruction: the assignment, and the program counter moves on.
PowStep(r, ins) ==
  [r EXCEPT ![ins[1]] = PowApply(ins[2], r[ins[3]], r[ins[4]]), !.pc = @ + 1]

\* The variables after the instructions r.pc..hi of code, run from r: up to
\* the middle first, then the rest.
RECURSIVE PowRun(_, _, _)
PowRun(code, hi, r) ==
  IF r.pc > hi THEN r
  ELSE IF r.pc = hi THEN PowStep(r, code[hi])
  ELSE PowRun(code, hi, PowRun(code, (r.pc + hi) \div 2, r))

\* The variables at the start: |x| = ax * 2^n with ax in the interval around
\* bp[k], t_h = ax + bp[k] computed from the high word ix of ax, the
\* constants, the variables assigned later (a, b and c hold the values of
\* subexpressions), and the program counter.
PowVariables(ax, k, ix, n, y) ==
  [pc |-> 1, ax |-> ax, n |-> FInt(n), y |-> y, scale |-> 0,
   bp |-> Pow_bp(k), dp_h |-> Pow_dp_h(k), dp_l |-> Pow_dp_l(k),
   t_h |-> FromHighWord(0, ((ix \div 2) + 536870912) + 524288 + (k * 262144)),
   one |-> FInt(1), two |-> FInt(2), three |-> FInt(3),
   L1 |-> Pow_L1, L2 |-> Pow_L2, L3 |-> Pow_L3, L4 |-> Pow_L4, L5 |-> Pow_L5,
   L6 |-> Pow_L6, P1 |-> Pow_P1, P2 |-> Pow_P2, P3 |-> Pow_P3, P4 |-> Pow_P4,
   P5 |-> Pow_P5, lg2 |-> Pow_lg2, lg2_h |-> Pow_lg2_h, lg2_l |-> Pow_lg2_l,
   cp |-> Pow_cp, cp_h |-> Pow_cp_h, cp_l |-> Pow_cp_l,
   u |-> FZero(0), v |-> FZero(0), ss |-> FZero(0), s_h |-> FZero(0),
   s_l |-> FZero(0), t_l |-> FZero(0), s2 |-> FZero(0), r |-> FZero(0),
   p_h |-> FZero(0), p_l |-> FZero(0), z_h |-> FZero(0), z_l |-> FZero(0),
   t |-> FZero(0), t1 |-> FZero(0), t2 |-> FZero(0), y1 |-> FZero(0),
   z |-> FZero(0), w |-> FZero(0), a |-> FZero(0), b |-> FZero(0),
   c |-> FZero(0)]

\* j is the top 20 fraction bits of x and n its exponent: |x| < sqrt(3/2),
\* |x| < sqrt(3), or beyond, relative to 2^n.
PowInterval(x, j, n, y) ==
  IF j <= 235662
  THEN PowVariables(FScale(FAbs(x), -n), 0, 1072693248 + j, n, y)
  ELSE IF j < 767610
  THEN PowVariables(FScale(FAbs(x), -n), 1, 1072693248 + j, n, y)
  ELSE PowVariables(FScale(FAbs(x), (-n) - 1), 0, 1071644672 + j, n + 1, y)

\* t1 + t2 = log2(|x|), and z = p_l + p_h = y * log2(|x|).
PowLogCode ==
  << \* u = ax - bp[k]; v = one / (ax + bp[k]); ss = u * v; s_h = ss, low
     \* word cleared
     << "u", "-", "ax", "bp" >>, << "a", "+", "ax", "bp" >>,
     << "v", "/", "one", "a" >>, << "ss", "*", "u", "v" >>,
     << "s_h", "high", "ss", "ss" >>,
     \* t_l = ax - (t_h - bp[k])
     << "a", "-", "t_h", "bp" >>, << "t_l", "-", "ax", "a" >>,
     \* s_l = v * ((u - s_h * t_h) - s_h * t_l)
     << "a", "*", "s_h", "t_h" >>, << "a", "-", "u", "a" >>,
     << "b", "*", "s_h", "t_l" >>, << "a", "-", "a", "b" >>,
     << "s_l", "*", "v", "a" >>,
     \* s2 = ss * ss
     << "s2", "*", "ss", "ss" >>,
     \* r = s2 * s2 * (L1 + s2 * (L2 + s2 * (L3 + s2 * (L4 + s2 * (L5 + s2 * L6)))))
     << "a", "*", "s2", "L6" >>, << "a", "+", "L5", "a" >>,
     << "a", "*", "s2", "a" >>, << "a", "+", "L4", "a" >>,
     << "a", "*", "s2", "a" >>, << "a", "+", "L3", "a" >>,
     << "a", "*", "s2", "a" >>, << "a", "+", "L2", "a" >>,
     << "a", "*", "s2", "a" >>, << "a", "+", "L1", "a" >>,
     << "b", "*", "s2", "s2" >>, << "r", "*", "b", "a" >>,
     \* r += s_l * (s_h + ss)
     << "a", "+", "s_h", "ss" >>, << "a", "*", "s_l", "a" >>,
     << "r", "+", "r", "a" >>,
     \* s2 = s_h * s_h; t_h = 3.0 + s2 + r, low word cleared
     << "s2", "*", "s_h", "s_h" >>, << "a", "+", "three", "s2" >>,
     << "a", "+", "a", "r" >>, << "t_h", "high", "a", "a" >>,
     \* t_l = r - ((t_h - 3.0) - s2)
     << "a", "-", "t_h", "three" >>, << "a", "-", "a", "s2" >>,
     << "t_l", "-", "r", "a" >>,
     \* u = s_h * t_h; v = s_l * t_h + t_l * ss
     << "u", "*", "s_h", "t_h" >>, << "a", "*", "s_l", "t_h" >>,
     << "b", "*", "t_l", "ss" >>, << "v", "+", "a", "b" >>,
     \* p_h = u + v, low word cleared; p_l = v - (p_h - u)
     << "a", "+", "u", "v" >>, << "p_h", "high", "a", "a" >>,
     << "a", "-", "p_h", "u" >>, << "p_l", "-", "v", "a" >>,
     \* z_h = cp_h * p_h; z_l = cp_l * p_h + p_l * cp + dp_l[k]
     << "z_h", "*", "cp_h", "p_h" >>, << "a", "*", "cp_l", "p_h" >>,
     << "b", "*", "p_l", "cp" >>, << "a", "+", "a", "b" >>,
     << "z_l", "+", "a", "dp_l" >>,
     \* t1 = ((z_h + z_l) + dp_h[k]) + n, low word cleared
     << "a", "+", "z_h", "z_l" >>, << "a", "+", "a", "dp_h" >>,
     << "a", "+", "a", "n" >>, << "t1", "high", "a", "a" >>,
     \* t2 = z_l - (((t1 - n) - dp_h[k]) - z_h)
     << "a", "-", "t1", "n" >>, << "a", "-", "a", "dp_h" >>,
     << "a", "-", "a", "z_h" >>, << "t2", "-", "z_l", "a" >>,
     \* y1 = y, low word cleared; p_l = (y - y1) * t1 + y * t2; p_h = y1 * t1
     << "y1", "high", "y", "y" >>, << "a", "-", "y", "y1" >>,
     << "a", "*", "a", "t1" >>, << "b", "*", "y", "t2" >>,
     << "p_l", "+", "a", "b" >>, << "p_h", "*", "y1", "t1" >>,
     \* z = p_l + p_h
     << "z", "+", "p_l", "p_h" >> >>

\* Takes the integer nearest to z out of p_h, into scale; i is the high word
\* of |z| + 0.5.  The code that follows starts at its first instruction.
PowInteger(r, i) ==
  [r EXCEPT !.pc = 1,
            !.p_h = FSub(r.p_h, FromHighWord(r.z.s,
                           i - (i % Pow2Small(1043 - (i \div 1048576))))),
            !.scale = (IF r.z.s = 1 THEN -1 ELSE 1)
                        * ((1048576 + (i % 1048576))
                             \div Pow2Small(1043 - (i \div 1048576)))]

\* |z| > 0.5 when its high word exceeds that of 0.5.  Results beyond the
\* largest or below the smallest normal binary64 are outside the modelled
\* inputs.
PowSplit(r) ==
  IF HighWord(r.z) > 1071644672
  THEN PowInteger(r, HighWord(r.z)
                       + (1048576 \div Pow2Small((HighWord(r.z) \div 1048576) - 1022)))
  ELSE [r EXCEPT !.pc = 1]

\* z = 2^(p_l + p_h).
PowExpCode ==
  << \* t = p_l + p_h, low word cleared
     << "a", "+", "p_l", "p_h" >>, << "t", "high", "a", "a" >>,
     \* u = t * lg2_h; v = (p_l - (t - p_h)) * lg2 + t * lg2_l
     << "u", "*", "t", "lg2_h" >>, << "a", "-", "t", "p_h" >>,
     << "a", "-", "p_l", "a" >>, << "a", "*", "a", "lg2" >>,
     << "b", "*", "t", "lg2_l" >>, << "v", "+", "a", "b" >>,
     \* z = u + v; w = v - (z - u); t = z * z
     << "z", "+", "u", "v" >>, << "a", "-", "z", "u" >>,
     << "w", "-", "v", "a" >>, << "t", "*", "z", "z" >>,
     \* t1 = z - t * (P1 + t * (P2 + t * (P3 + t * (P4 + t * P5))))
     << "a", "*", "t", "P5" >>, << "a", "+", "P4", "a" >>,
     << "a", "*", "t", "a" >>, << "a", "+", "P3", "a" >>,
     << "a", "*", "t", "a" >>, << "a", "+", "P2", "a" >>,
     << "a", "*", "t", "a" >>, << "a", "+", "P1", "a" >>,
     << "a", "*", "t", "a" >>, << "t1", "-", "z", "a" >>,
     \* r = (z * t1) / ((t1 - two) - (w + z * w))
     << "a", "*", "z", "t1" >>, << "b", "-", "t1", "two" >>,
     << "c", "*", "z", "w" >>, << "c", "+", "w", "c" >>,
     << "b", "-", "b", "c" >>, << "r", "/", "a", "b" >>,
     \* z = one - (r - z)
     << "a", "-", "r", "z" >>, << "z", "-", "one", "a" >> >>

\* s * z * 2^scale.
PowResult(s, r) ==
  IF s = 1 THEN FNeg(FScale(r.z, r.scale)) ELSE FScale(r.z, r.scale)

\* Math.pow(x, n) for an integer n and a normal x: 1 for n = 0, x and 1 / x
\* for n = 1 and n = -1, x * x for n = 2, and otherwise 2^(n * log2(|x|)),
\* negative when x < 0 and n is odd.
MathPow(x, n) ==
  IF n = 0 THEN FInt(1)
  ELSE IF n = 1 THEN x
  ELSE IF n = -1 THEN FDiv(FInt(1), x)
  ELSE IF n = 2 THEN FMul(x, x)
  ELSE IF FIsZero(x) THEN FZero(IF n % 2 = 1 THEN x.s ELSE 0)
  ELSE IF FAbs(x) = FInt(1) THEN FCanon(IF n % 2 = 1 THEN x.s ELSE 0, << 1 >>, 0)
  ELSE PowResult(IF n % 2 = 1 THEN x.s ELSE 0,
         PowRun(PowExpCode, Len(PowExpCode),
           PowSplit(PowRun(PowLogCode, Len(PowLogCode),
             PowInterval(x, HighWord(x) % 1048576, FExponent(x), FInt(n))))))

\* Math.pow(10, n) for n = 0, ..., 40, the scales that occur most: the
\* values of MathPow(FInt(10), n), in order.  They are the nearest binary64
\* to 10^n except for n = 26, 29, 34, 36 and 39.
Pow10Values ==
  << [s |-> 0, m |-> << 1 >>, e |-> 0],
     [s |-> 0, m |-> << 5 >>, e |-> 1],
     [s |-> 0, m |-> << 25 >>, e |-> 2],
     [s |-> 0, m |-> << 125 >>, e |-> 3],
     [s |-> 0, m |-> << 625 >>, e |-> 4],
     [s |-> 0, m |-> << 3125 >>, e |-> 5],
     [s |-> 0, m |-> << 15625 >>, e |-> 6],
     [s |-> 0, m |-> << 12589, 2 >>, e |-> 7],
     [s |-> 0, m |-> << 30177, 11 >>, e |-> 8],
     [s |-> 0, m |-> << 19813, 59 >>, e |-> 9],
     [s |-> 0, m |-> << 761, 298 >>, e |-> 10],
     [s |-> 0, m |-> << 3805, 1490 >>, e |-> 11],
     [s |-> 0, m |-> << 19025, 7450 >>, e |-> 12],
     [s |-> 0, m |-> << 29589, 4484, 1 >>, e |-> 13],
     [s |-> 0, m |-> << 16873, 22424, 5 >>, e |-> 14],
     [s |-> 0, m |-> << 18829, 13818, 28 >>, e |-> 15],
     [s |-> 0, m |-> << 28609, 3556, 142 >>, e |-> 16],
     [s |-> 0, m |-> << 11973, 17784, 710 >>, e |-> 17],
     [s |-> 0, m |-> << 27097, 23385, 3552 >>, e |-> 18],
     [s |-> 0, m |-> << 4413, 18625, 17763 >>, e |-> 19],
     [s |-> 0, m |-> << 22065, 27589, 23281, 2 >>, e |-> 20],
     [s |-> 0, m |-> << 12021, 6876, 18105, 13 >>, e |-> 21],
     [s |-> 0, m |-> << 27337, 1613, 24990, 67 >>, e |-> 22],
     [s |-> 0, m |-> << 9595, 18401, 23045, 84 >>, e |-> 25],
     [s |-> 0, m |-> << 26477, 15596, 30787, 52 >>, e |-> 29],
     [s |-> 0, m |-> << 657, 22608, 11432, 132 >>, e |-> 31],
     [s |-> 0, m |-> << 205, 23449, 11764, 41 >>, e |-> 36],
     [s |-> 0, m |-> << 16897, 25854, 13027, 103 >>, e |-> 38],
     [s |-> 0, m |-> << 4737, 24126, 8092, 129 >>, e |-> 41],
     [s |-> 0, m |-> << 27537, 31462, 25537, 80 >>, e |-> 45],
     [s |-> 0, m |-> << 18037, 14752, 31922, 100 >>, e |-> 48],
     [s |-> 0, m |-> << 11273, 17412, 3567, 63 >>, e |-> 52],
     [s |-> 0, m |-> << 28183, 27146, 25302, 157 >>, e |-> 54],
     [s |-> 0, m |-> << 12903, 4387, 9955, 49 >>, e |-> 59],
     [s |-> 0, m |-> << 7937, 30060, 20635, 61 >>, e |-> 62],
     [s |-> 0, m |-> << 9921, 29383, 1218, 77 >>, e |-> 65],
     [s |-> 0, m |-> << 4209, 20345, 9715, 96 >>, e |-> 68],
     [s |-> 0, m |-> << 26907, 1710, 24289, 240 >>, e |-> 70],
     [s |-> 0, m |-> << 8625, 21549, 15180, 150 >>, e |-> 74],
     [s |-> 0, m |-> << 9487, 29852, 1295, 94 >>, e |-> 78],
     [s |-> 0, m |-> << 23717, 25478, 3239, 235 >>, e |-> 80] >>

\* Math.pow(10, n).
MathPow10(n) ==
  IF n >= 0 /\ n < Len(Pow10Values) THEN Pow10Values[n + 1]
  ELSE MathPow(FInt(10), n)

(***************************************************************************)
(* Number.prototype.toString: the shortest decimal digits that read back   *)
(* as the same binary64, laid out as the language lays them out.  A string *)
(* is a sequence of one-character strings.                                 *)
(***************************************************************************)
RECURSIVE StripLeadingZeros(_)
StripLeadingZeros(d) ==
  IF Len(d) > 0 /\ d[1] = 0 THEN StripLeadingZeros(Tail(d)) ELSE d

RECURSIVE StripTrailingZeros(_)
StripTrailingZeros(d) ==
  IF Len(d) > 0 /\ d[Len(d)] = 0
  THEN StripTrailingZeros(SubSeq(d, 1, Len(d) - 1)) ELSE d

RECURSIVE BChunks(_, _)
BChunks(a, acc) ==
  IF Len(a) = 0 THEN acc
  ELSE LET d  == BDivSmall(a, 10000)
           r  == d.r
           a2 == << r \div 1000, (r \div 100) % 10, (r \div 10) % 10, r % 10 >> \o acc
       IN  IF Len(a2) >= 0 THEN BChunks(d.q, a2) ELSE << >>

\* The decimal digits of a, most significant first (<< >> for 0).
BDigits(a) == StripLeadingZeros(BChunks(a, << >>))

RECURSIVE BFromDigitsFrom(_, _, _)
BFromDigitsFrom(d, i, acc) ==
  IF i > Len(d) THEN acc
  ELSE LET a2 == BAdd(BMulSmall(acc, 10), BFromInt(d[i]))
       IN  IF Len(a2) >= 0 THEN BFromDigitsFrom(d, i + 1, a2) ELSE << >>

BFromDigits(d) == BFromDigitsFrom(d, 1, << >>)

\* |x| written out exactly: |x| = dig / 10^pl, for x # 0.
ExactDecimal(x) ==
  IF x.e >= 0 THEN [dig |-> BDigits(BShl(x.m, x.e)), pl |-> 0]
  ELSE [dig |-> BDigits(BMul(x.m, BPow(5, -x.e))), pl |-> -x.e]

\* S * 10^j compared with W * 2^h.
CmpScaled(S, j, W, h) ==
  BCmp(BShl(BMul(S, BPow(10, Max(j, 0))), Max(-h, 0)),
       BMul(BShl(W, Max(h, 0)), BPow(10, Max(-j, 0))))

\* TRUE iff a value that compares as cl with the lower end and as ch with the
\* upper end of a rounding interval lies in it; the ends belong to it iff incl.
InInterval(cl, ch, incl) ==
  /\ IF incl THEN cl >= 0 ELSE cl > 0
  /\ IF incl THEN ch <= 0 ELSE ch < 0

\* TRUE iff S * 10^j reads back as x, i.e. lies in the rounding interval of x.
ReadsBackAs(S, j, x) ==
  LET L    == BBitLen(x.m)
      mN   == BShl(x.m, MantBits - L)
      h    == x.e - (MantBits - L) - 2
      m4   == BMulSmall(mN, 4)
      lo   == BSub(m4, IF x.m = << 1 >> THEN << 1 >> ELSE << 2 >>)
      hi   == BAdd(m4, << 2 >>)
  IN  InInterval(CmpScaled(S, j, lo, h), CmpScaled(S, j, hi, h), L < MantBits)

RECURSIVE AllZeroFrom(_, _)
AllZeroFrom(d, i) == IF i > Len(d) THEN TRUE ELSE d[i] = 0 /\ AllZeroFrom(d, i + 1)

\* [dig, n] for the digits sd of S, where |x| reads back from S * 10^j.
ShortestResult(sd, j) == [dig |-> StripTrailingZeros(sd), n |-> j + Len(sd)]

RECURSIVE ShortestFrom(_, _, _)

\* Of the two k-digit neighbours SF <= |x| / 10^j <= SC, the one that reads
\* back as x; when both do, the one nearer to |x| (a tie going to the even).
ShortestPick(x, ex, k, SF, SC, inF, inC) ==
  LET nxt   == ex.dig[k + 1]
      tie   == nxt = 5 /\ AllZeroFrom(ex.dig, k + 2)
      upper == IF tie THEN ex.dig[k] % 2 = 1 ELSE nxt >= 5
  IN  IF inF \/ inC
      THEN ShortestResult(BDigits(IF inF /\ inC THEN (IF upper THEN SC ELSE SF)
                                  ELSE IF inF THEN SF ELSE SC),
                          Len(ex.dig) - ex.pl - k)
      ELSE ShortestFrom(x, ex, k + 1)

ShortestNeighbours(x, ex, k, SF, SC) ==
  ShortestPick(x, ex, k, SF, SC,
               ReadsBackAs(SF, Len(ex.dig) - ex.pl - k, x),
               ReadsBackAs(SC, Len(ex.dig) - ex.pl - k, x))

ShortestTry(x, ex, k, SF) == ShortestNeighbours(x, ex, k, SF, BAdd(SF, << 1 >>))

\* The shortest reading-back digits, tried with k = 1, 2, ... digits, of x
\* whose exact decimal expansion is ex.
ShortestFrom(x, ex, k) ==
  IF k >= Len(ex.dig)
  THEN [dig |-> StripTrailingZeros(ex.dig), n |-> Len(ex.dig) - ex.pl]
  ELSE ShortestTry(x, ex, k, BFromDigits(SubSeq(ex.dig, 1, k)))

\* [dig, n]: |x| = 0.dig * 10^n with as few digits as read back as x (x # 0).
Shortest(x) == ShortestFrom(x, ExactDecimal(x), 1)

DigitChars == << "0", "1", "2", "3", "4", "5", "6", "7", "8", "9" >>
DigitStr(d) == [i \in 1..Len(d) |-> DigitChars[d[i] + 1]]
Zeros(n) == [i \in 1..n |-> "0"]

RECURSIVE IntDigits(_)
IntDigits(n) == IF n < 10 THEN << n >> ELSE Append(IntDigits(n \div 10), n % 10)

\* The exponent part of the exponential notation, for the decimal exponent ex.
ExponentPart(ex) ==
  (IF ex < 0 THEN << "e", "-" >> ELSE << "e", "+" >>)
  \o DigitStr(IntDigits(IF ex < 0 THEN -ex ELSE ex))

\* The digits ds of 0.ds * 10^n laid out after the sign.
NumberLayout(sign, ds, n) ==
  LET k == Len(ds)
  IN  sign \o
      (IF k <= n /\ n <= 21 THEN ds \o Zeros(n - k)
       ELSE IF 0 < n /\ n <= 21
       THEN SubSeq(ds, 1, n) \o << "." >> \o SubSeq(ds, n + 1, k)
       ELSE IF -6 < n /\ n <= 0 THEN << "0", "." >> \o Zeros(-n) \o ds
       ELSE IF k = 1 THEN ds \o ExponentPart(n - 1)
       ELSE << ds[1], "." >> \o SubSeq(ds, 2, k) \o ExponentPart(n - 1))

NumberShortest(sign, sh) == NumberLayout(sign, DigitStr(sh.dig), sh.n)

NumberToString(x) ==
  IF FIsZero(x) THEN << "0" >>
  ELSE NumberShortest(IF x.s = 1 THEN << "-" >> ELSE << >>, Shortest(x))

\* String.prototype.indexOf for a one-character needle: 0-based, -1 if absent.
RECURSIVE IndexOfFrom(_, _, _)
IndexOfFrom(str, c, i) ==
  IF i > Len(str) THEN -1
  ELSE IF str[i] = c THEN i - 1 ELSE IndexOfFrom(str, c, i + 1)

IndexOf(str, c) == IndexOfFrom(str, c, 1)

(***************************************************************************)
(* The precise arithmetic functions.  A call that can throw yields an      *)
(* outcome: Return(v) or Throw(error).                                     *)
(***************************************************************************)
\* new Error('除数不能为零')
DivisionByZero == "DivisionByZero"
\* new Error(`不支持的运算符: ${operator}`)
UnsupportedOperator == "UnsupportedOperator"
\* new Error('不能对负数进行平方根运算')
NegativeOperand == "NegativeOperand"

Return(v) == [ok |-> TRUE, val |-> v]
Throw(err) == [ok |-> FALSE, err |-> err]

DefaultPrecision == 10

\* Math.round(value * multiplier) / multiplier
RoundScaled(value, multiplier) == FDiv(MathRound(FMul(value, multiplier)), multiplier)
\* Math.ceil(value * multiplier) / multiplier
CeilScaled(value, multiplier) == FDiv(MathCeil(FMul(value, multiplier)), multiplier)
\* Math.floor(value * multiplier) / multiplier
FloorScaled(value, multiplier) == FDiv(MathFloor(FMul(value, multiplier)), multiplier)

\* decimalIndex === -1 ? 0 : str.length - decimalIndex - 1
DecimalPlacesOf(str) ==
  LET decimalIndex == IndexOf(str, ".")
  IN  IF decimalIndex = -1 THEN 0 ELSE Len(str) - decimalIndex - 1

getDecimalPlaces(num) ==
  LET str == NumberToString(num)
  IN  DecimalPlacesOf(str)

\* Math.round(a * multiplier + b * multiplier) / multiplier
ScaledSum(a, b, multiplier) ==
  FDiv(MathRound(FAdd(FMul(a, multiplier), FMul(b, multiplier))), multiplier)

\* A faulty preciseAdd: the multiplier is 10^min(da, db).
preciseAdd_MinPlaces(a, b) ==
  ScaledSum(a, b, MathPow10(Min(getDecimalPlaces(a), getDecimalPlaces(b))))

\* A faulty preciseAdd: the operands are added as they are.
preciseAdd_Unscaled(a, b) == FAdd(a, b)

preciseAdd(a, b) ==
  LET decimalPlacesA   == getDecimalPlaces(a)
      decimalPlacesB   == getDecimalPlaces(b)
      maxDecimalPlaces == Max(decimalPlacesA, decimalPlacesB)
      multiplier       == MathPow10(maxDecimalPlaces)
  IN  ScaledSum(a, b, multiplier)

\* Math.round(a * multiplier - b * multiplier) / multiplier
ScaledDifference(a, b, multiplier) ==
  FDiv(MathRound(FSub(FMul(a, multiplier), FMul(b, multiplier))), multiplier)

\* A faulty preciseSubtract: the operands are taken in the other order.
preciseSubtract_Reversed(a, b) ==
  ScaledDifference(b, a, MathPow10(Max(getDecimalPlaces(a), getDecimalPlaces(b))))

preciseSubtract(a, b) ==
  LET decimalPlacesA   == getDecimalPlaces(a)
      decimalPlacesB   == getDecimalPlaces(b)
      maxDecimalPlaces == Max(decimalPlacesA, decimalPlacesB)
      multiplier       == MathPow10(maxDecimalPlaces)
  IN  ScaledDifference(a, b, multiplier)

\* Math.round(a * multiplier * b) / multiplier
ScaledProduct(a, b, multiplier) ==
  FDiv(MathRound(FMul(FMul(a, multiplier), b)), multiplier)

\* A faulty preciseMultiply: the multiplier of preciseAdd, 10^max(da, db).
preciseMultiply_MaxPlaces(a, b) ==
  LET decimalPlacesA == getDecimalPlaces(a)
      decimalPlacesB == getDecimalPlaces(b)
      multiplier     == MathPow10(Max(decimalPlacesA, decimalPlacesB))
  IN  ScaledProduct(a, b, multiplier)

preciseMultiply(a, b) ==
  LET decimalPlacesA == getDecimalPlaces(a)
      decimalPlacesB == getDecimalPlaces(b)
      multiplier     == MathPow10(decimalPlacesA + decimalPlacesB)
  IN  ScaledProduct(a, b, multiplier)

\* Math.round((a / b) * multiplier) / multiplier
ScaledQuotient(a, b, multiplier) ==
  FDiv(MathRound(FMul(FDiv(a, b), multiplier)), multiplier)

\* A faulty preciseDivide: `b <= 0` for `b === 0`.
preciseDivide_NonPositive(a, b, precision) ==
  IF FIsZero(b) \/ b.s = 1 THEN Throw(DivisionByZero)
  ELSE LET multiplier == MathPow10(precision)
       IN  Return(ScaledQuotient(a, b, multiplier))

preciseDivide(a, b, precision) ==
  IF FIsZero(b) THEN Throw(DivisionByZero)
  ELSE LET multiplier == MathPow10(precision)
       IN  Return(ScaledQuotient(a, b, multiplier))

\* A faulty preciseCalculate: the case '*' is missing.
preciseCalculate_NoMultiply(a, operator, b, precision) ==
  CASE operator = "+" -> Return(preciseAdd(a, b))
    [] operator = "-" -> Return(preciseSubtract(a, b))
    [] operator = "/" -> preciseDivide(a, b, precision)
    [] OTHER -> Throw(UnsupportedOperator)

\* A faulty preciseCalculate: the case '-' calls preciseAdd.
preciseCalculate_MinusAdds(a, operator, b, precision) ==
  CASE operator = "+" -> Return(preciseAdd(a, b))
    [] operator = "-" -> Return(preciseAdd(a, b))
    [] operator = "*" -> Return(preciseMultiply(a, b))
    [] operator = "/" -> preciseDivide(a, b, precision)
    [] OTHER -> Throw(UnsupportedOperator)

\* A faulty preciseCalculate: the product is rounded to precision places too.
preciseCalculate_RoundsProduct(a, operator, b, precision) ==
  CASE operator = "+" -> Return(preciseAdd(a, b))
    [] operator = "-" -> Return(preciseSubtract(a, b))
    [] operator = "*" -> Return(RoundScaled(preciseMultiply(a, b), MathPow10(precision)))
    [] operator = "/" -> preciseDivide(a, b, precision)
    [] OTHER -> Throw(UnsupportedOperator)

preciseCalculate(a, operator, b, precision) ==
  CASE operator = "+" -> Return(preciseAdd(a, b))
    [] operator = "-" -> Return(preciseSubtract(a, b))
    [] operator = "*" -> Return(preciseMultiply(a, b))
    [] operator = "/" -> preciseDivide(a, b, precision)
    [] OTHER -> Throw(UnsupportedOperator)

(***************************************************************************)
(* Inputs.  A numeric literal of the caller is [neg, n, pl]: the decimal   *)
(* n / 10^pl, negated when neg ([neg |-> TRUE, n |-> 0] is the literal -0).*)
(***************************************************************************)
MaxDigits == 3
MaxPlaces == 2

Lit(neg, n, pl) == [neg |-> neg, n |-> n, pl |-> pl]

\* The binary64 nearest to the decimal N / 10^pl, negated when neg.
DecimalValue(neg, N, pl) ==
  IF BIsZero(N) THEN FZero(IF neg THEN 1 ELSE 0)
  ELSE FRatio(IF neg THEN 1 ELSE 0, N, BPow(10, pl), 0)

\* The binary64 a literal denotes.
Num(l) == DecimalValue(l.neg, BFromInt(l.n), l.pl)

GridLiterals ==
  { l \in [neg : BOOLEAN, n : 0..MaxDigits, pl : 0..MaxPlaces] :
      l.pl = 0 \/ l.n % 10 # 0 }

\* The operand pairs of the documented examples.
ExamplePairs ==
  { << Lit(FALSE, 1, 1), Lit(FALSE, 2, 1) >>,
    << Lit(FALSE, 15, 1), Lit(FALSE, 12, 1) >>,
    << Lit(FALSE, 3, 1), Lit(FALSE, 1, 1) >>,
    << Lit(FALSE, 11, 1), Lit(FALSE, 22, 1) >>,
    << Lit(FALSE, 55, 1), Lit(FALSE, 21, 1) >>,
    << Lit(FALSE, 33, 1), Lit(FALSE, 22, 1) >>,
    << Lit(FALSE, 72, 1), Lit(FALSE, 24, 1) >>,
    << Lit(FALSE, 12345678, 4), Lit(FALSE, 87654321, 4) >>,
    << Lit(FALSE, 1005, 3), Lit(FALSE, 1, 0) >>,
    << Lit(TRUE, 5, 0), Lit(FALSE, 2, 0) >>,
    << Lit(FALSE, 1, 0), Lit(FALSE, 4, 0) >>,
    << Lit(FALSE, 2, 0), Lit(TRUE, 3, 0) >> }

\* Operand pairs whose quotient, scaled by 10^DefaultPrecision, lies close to
\* half way between two integers.
NearHalfPairs ==
  { << Lit(FALSE, 2312, 0), Lit(FALSE, 29, 2) >>,
    << Lit(TRUE, 5266, 0), Lit(TRUE, 55, 3) >> }

OperandPairs == (GridLiterals \X GridLiterals) \cup ExamplePairs \cup NearHalfPairs

Operators == { "+", "-", "*", "/", "%", "^", "" }
Precisions == { 0, 1, DefaultPrecision }

\* An optional argument is << >> when omitted and << v >> when given.
Omitted == << >>
Given(v) == << v >>
OrDefault(opt, default) == IF opt = Omitted THEN default ELSE opt[1]

MaxCalls == 2
MaxResults == 1

InitialValues == { Omitted, Given(Lit(TRUE, 4, 0)), Given(Lit(FALSE, 1, 1)) }
ChainOperands == { Lit(FALSE, 0, 0), Lit(TRUE, 3, 1), Lit(FALSE, 2, 0) }
ChainPrecisions == { Omitted, Given(0) }
ChainDecimals == { Omitted, Given(1) }
ChainExponents == { 2 }

\* The argument lists a caller that chooses freely passes to each method.
ConstructorArgs == { << initialValue >> : initialValue \in InitialValues }
OperandArgs == { << num >> : num \in ChainOperands }
DivideArgs == ChainOperands \X ChainPrecisions
PowerArgs == { << exponent >> : exponent \in ChainExponents }
DecimalsArgs == { << decimals >> : decimals \in ChainDecimals }
NoArgs == { << >> }
FormatArgs == { << Omitted, Omitted >>, << Given(101), Given(TRUE) >> }
ThousandsArgs == { << Omitted >>, << Given(101) >> }
ScientificArgs == { << Omitted >>, << Given(-1) >> }

(***************************************************************************)
(* Number formatting: toFixed, toExponential, and the functions built on   *)
(* them.  A call that can throw yields an outcome.                         *)
(***************************************************************************)
\* The RangeError of toFixed and toExponential for a digit count outside 0..100.
RangeError == "RangeError"
MaxFractionDigits == 100

\* The integer n for which n / 10^f - |x| is as close to zero as possible,
\* the larger n when there are two.
FixedInteger(x, f) ==
  IF x.e >= 0 THEN BShl(BMul(x.m, BPow(10, f)), x.e)
  ELSE BShr(BAdd(BMul(x.m, BPow(10, f)), BShl(<< 1 >>, -x.e - 1)), -x.e)

\* The digits of an integer, "0" for zero.
IntegerText(ds) == IF Len(ds) = 0 THEN << "0" >> ELSE DigitStr(ds)

\* m padded on the left with zeros to at least f + 1 characters.
PadFraction(m, f) == IF Len(m) <= f THEN Zeros(f + 1 - Len(m)) \o m ELSE m

\* m with a decimal point before its last f characters.
PointBefore(m, f) ==
  SubSeq(m, 1, Len(m) - f) \o << "." >> \o SubSeq(m, Len(m) - f + 1, Len(m))

FixedLayout(m, f) == IF f = 0 THEN m ELSE PointBefore(PadFraction(m, f), f)

\* TRUE iff |x| >= 10^21.
AtLeast1e21(x) == x.e >= 0 /\ BCmp(BShl(x.m, x.e), BPow(10, 21)) >= 0

SignText(x) == IF x.s = 1 /\ ~FIsZero(x) THEN << "-" >> ELSE << >>

\* Number.prototype.toFixed
NumberToFixed(x, fractionDigits) ==
  IF fractionDigits < 0 \/ fractionDigits > MaxFractionDigits THEN Throw(RangeError)
  ELSE IF AtLeast1e21(x) THEN Return(NumberToString(x))
  ELSE Return(SignText(x) \o
              FixedLayout(IntegerText(BDigits(FixedInteger(x, fractionDigits))),
                          fractionDigits))

\* The f + 1 leading digits of ex, zeros added when it has fewer.
LeadingDigits(ex, f) ==
  IF Len(ex.dig) >= f + 1 THEN SubSeq(ex.dig, 1, f + 1)
  ELSE ex.dig \o [i \in 1..(f + 1 - Len(ex.dig)) |-> 0]

\* [dig, e]: the f + 1 digits n, incremented when up, and the exponent e with
\* 10^f <= n < 10^(f+1): a carry out of the leading digit moves the exponent.
ExponentialCarry(n, up, f, e) ==
  IF ~up THEN [dig |-> BDigits(n), e |-> e]
  ELSE IF BCmp(BAdd(n, << 1 >>), BPow(10, f + 1)) = 0
  THEN [dig |-> BDigits(BPow(10, f)), e |-> e + 1]
  ELSE [dig |-> BDigits(BAdd(n, << 1 >>)), e |-> e]

\* n and e with n * 10^(e-f) - |x| as close to zero as possible, the larger
\* n * 10^(e-f) when there are two, for x # 0 written out exactly as ex.
ExponentialDigits(ex, f) ==
  ExponentialCarry(BFromDigits(LeadingDigits(ex, f)),
                   Len(ex.dig) > f + 1 /\ ex.dig[f + 2] >= 5,
                   f, Len(ex.dig) - ex.pl - 1)

ExponentialLayout(sign, ds, f, e) ==
  sign \o (IF f = 0 THEN ds ELSE << ds[1], "." >> \o SubSeq(ds, 2, Len(ds)))
       \o ExponentPart(e)

ExponentialText(sign, r, f) == ExponentialLayout(sign, DigitStr(r.dig), f, r.e)

\* Number.prototype.toExponential
NumberToExponential(x, fractionDigits) ==
  IF fractionDigits < 0 \/ fractionDigits > MaxFractionDigits THEN Throw(RangeError)
  ELSE IF FIsZero(x) THEN Return(ExponentialLayout(<< >>, Zeros(fractionDigits + 1),
                                                   fractionDigits, 0))
  ELSE Return(ExponentialText(SignText(x),
                              ExponentialDigits(ExactDecimal(x), fractionDigits),
                              fractionDigits))

\* TRUE iff str[i..] is one or more "0" up to the end of str.
RECURSIVE ZerosToEnd(_, _)
ZerosToEnd(str, i) ==
  /\ i <= Len(str)
  /\ str[i] = "0"
  /\ (i = Len(str) \/ ZerosToEnd(str, i + 1))

\* TRUE iff /\.?0+$/ matches at the 1-based position i of str.
StripMatchesAt(str, i) ==
  \/ ZerosToEnd(str, i)
  \/ str[i] = "." /\ ZerosToEnd(str, i + 1)

\* The leftmost position where /\.?0+$/ matches, 0 if there is none.
RECURSIVE StripMatchFrom(_, _)
StripMatchFrom(str, i) ==
  IF i > Len(str) THEN 0
  ELSE IF StripMatchesAt(str, i) THEN i
  ELSE StripMatchFrom(str, i + 1)

CutAt(str, i) == IF i = 0 THEN str ELSE SubSeq(str, 1, i - 1)

\* formatted.replace(/\.?0+$/, '')
StripTrailing(formatted) == CutAt(formatted, StripMatchFrom(formatted, 1))

DefaultDecimals == 2

\* The rest of formatNumber, for what num.toFixed(decimals) yielded.
FormattedOutcome(formatted, removeTrailingZeros) ==
  IF ~formatted.ok THEN formatted
  ELSE IF removeTrailingZeros THEN Return(StripTrailing(formatted.val))
  ELSE formatted

formatNumber(num, decimals, removeTrailingZeros) ==
  FormattedOutcome(NumberToFixed(num, OrDefault(decimals, DefaultDecimals)),
                   OrDefault(removeTrailingZeros, FALSE))

\* A decimals argument of formatThousands: a number or a string.
NumberArg(n) == [type |-> "number", num |-> n, str |-> << >>]
StringArg(str) == [type |-> "string", num |-> 0, str |-> str]

\* Number.prototype.toString for an integer.
IntegerToString(n) ==
  IF n < 0 THEN << "-" >> \o DigitStr(IntDigits(-n)) ELSE DigitStr(IntDigits(n))

IsDigitChar(c) == \E d \in 1..10 : DigitChars[d] = c
DigitValue(c) == (CHOOSE d \in 1..10 : DigitChars[d] = c) - 1

\* The number of digits str has from position i on, up to the first other
\* character.
RECURSIVE DigitRun(_, _)
DigitRun(str, i) ==
  IF i > Len(str) \/ ~IsDigitChar(str[i]) THEN 0 ELSE 1 + DigitRun(str, i + 1)

RECURSIVE DigitsValue(_, _, _, _)
DigitsValue(str, i, n, acc) ==
  IF n = 0 THEN acc ELSE DigitsValue(str, i + 1, n - 1, 10 * acc + DigitValue(str[i]))

\* The number of characters of str from position i on that are in set cs, up
\* to the first that is not.
RECURSIVE RunOf(_, _, _)
RunOf(str, cs, i) ==
  IF i > Len(str) \/ str[i] \notin cs THEN 0 ELSE 1 + RunOf(str, cs, i + 1)

\* White space: what Number(text) strips from both ends, parseInt skips and
\* \s matches.
WhiteSpaceChars ==
  { " ", "\t", "\n", "\r", "\f", "\\u000b", "\\u00a0", "\\u1680", "\\u2000", "\\u2001",
    "\\u2002", "\\u2003", "\\u2004", "\\u2005", "\\u2006", "\\u2007", "\\u2008",
    "\\u2009", "\\u200a", "\\u2028", "\\u2029", "\\u202f", "\\u205f", "\\u3000",
    "\\ufeff" }

\* The digits of str from position i on, read as an integer with the sign:
\* [nan |-> TRUE] when there is no digit.
ParseIntFrom(str, neg, i) ==
  IF DigitRun(str, i) = 0 THEN [nan |-> TRUE, val |-> 0]
  ELSE [nan |-> FALSE,
        val |-> (IF neg THEN -1 ELSE 1) * DigitsValue(str, i, DigitRun(str, i), 0)]

\* The same for the optional sign at position i and the digits after it.
ParseIntSigned(str, i) ==
  IF i <= Len(str) /\ str[i] \in { "-", "+" } THEN ParseIntFrom(str, str[i] = "-", i + 1)
  ELSE ParseIntFrom(str, FALSE, i)

\* parseInt(str, 10): leading white space is skipped, and what follows the
\* digits is not looked at.
ParseInt(str) == ParseIntSigned(str, RunOf(str, WhiteSpaceChars, 1) + 1)

OrIfNaN(parsed, default) == IF parsed.nan THEN default ELSE parsed.val

\* Of the characters a number's text is made of, the word characters (\w).
IsWordChar(c) == IsDigitChar(c) \/ c = "e"

\* TRUE iff /\B(?=(\d{3})+(?!\d))/ matches before the 1-based position i.
SeparatorBefore(str, i) ==
  /\ i > 1
  /\ IsWordChar(str[i - 1])
  /\ DigitRun(str, i) > 0
  /\ DigitRun(str, i) % 3 = 0

\* integerPart.replace(/\B(?=(\d{3})+(?!\d))/g, ',')
RECURSIVE WithSeparatorsFrom(_, _)
WithSeparatorsFrom(str, i) ==
  IF i > Len(str) THEN << >>
  ELSE (IF SeparatorBefore(str, i) THEN << ",", str[i] >> ELSE << str[i] >>)
       \o WithSeparatorsFrom(str, i + 1)

\* formattedNum.split('.'), parts[0]
IntegerPartAt(str, dot) == IF dot = -1 THEN str ELSE SubSeq(str, 1, dot)

\* parts.length > 1 ? '.' + parts[1] : ''
DecimalPartOf(rest) == << "." >> \o IntegerPartAt(rest, IndexOf(rest, "."))

DecimalPartAt(str, dot) ==
  IF dot = -1 THEN << >> ELSE DecimalPartOf(SubSeq(str, dot + 2, Len(str)))

SeparatedAt(str, dot) ==
  WithSeparatorsFrom(IntegerPartAt(str, dot), 1) \o DecimalPartAt(str, dot)

\* The rest of formatThousands, for what num.toFixed(decimalPlaces) yielded.
SeparatedOutcome(formattedNum) ==
  IF ~formattedNum.ok THEN formattedNum
  ELSE Return(SeparatedAt(formattedNum.val, IndexOf(formattedNum.val, ".")))

DecimalPlacesArg(decimals) ==
  IF decimals.type = "string" THEN OrIfNaN(ParseInt(decimals.str), DefaultDecimals)
  ELSE decimals.num

formatThousands(num, decimals) ==
  SeparatedOutcome(NumberToFixed(num,
                     DecimalPlacesArg(OrDefault(decimals, NumberArg(DefaultDecimals)))))

toScientificNotation(num, precision) ==
  NumberToExponential(num, OrDefault(precision, DefaultDecimals))

(***************************************************************************)
(* State.                                                                  *)
(***************************************************************************)
VARIABLES
  args,   \* the operands << a, b >> of the pure call under test
  call,   \* the pure call made on them and its outcome
  calc,   \* calc[i] is the accumulator (this.value) of the i-th Calculator made
  hist,   \* hist[i]: the constructor argument of instance i and the calls made
          \* on it, in call order, each with the accumulator it found and what
          \* it returned or threw
  last,   \* the latest Calculator call: method, instance, the accumulator it
          \* found and what it returned or threw
  budget, \* the caller: one that chooses its calls freely may still make so
          \* many instances, mutating calls and accessor calls; a scripted one
          \* makes the calls of its script, in order
  now,          \* the clock, in ms: Date.now(), and the time base of the timers
  timers,       \* the timers set with setTimeout and neither fired nor cleared:
                \* [id, due, arg], arg being what the callback has captured
  timerSeq,     \* the number of timers set so far; the next timer's id is one more
  log,          \* what has happened so far, in order: [ev, t, n, x]
  options,      \* the options of the function under test (retry, debounce, throttle)
  pc,           \* retry: where the async function stands
  attempt,      \* retry: the loop variable
  lastError,    \* retry: the error caught last
  promise,      \* retry: the promise returned, [state, value]
  timeout,      \* debounce, throttle: the closure's timer id, or null
  previous,     \* throttle: the closure's time of the latest execution
  localStorage  \* window.localStorage: the string stored under each key present

pureVars == << args, call >>
calcVars == << calc, hist, last, budget >>
timerVars == << now, timers, timerSeq, log, options >>
retryVars == << pc, attempt, lastError, promise >>
closureVars == << timeout, previous >>
utilVars == << timerVars, retryVars, closureVars, localStorage >>
vars == << pureVars, calcVars, utilVars >>

Null == "null"
Undefined == "undefined"

\* `let timeout = null`: no timer id is 0, and `if (timeout)` tells them apart.
NoTimer == 0
Pending == [state |-> "pending", value |-> Undefined]

\* Nothing of the timing and storage utilities is in use.
UtilIdle ==
  /\ now = 0
  /\ timers = { }
  /\ timerSeq = 0
  /\ log = << >>
  /\ options = << >>
  /\ pc = "idle"
  /\ attempt = 0
  /\ lastError = Undefined
  /\ promise = Pending
  /\ timeout = NoTimer
  /\ previous = 0
  /\ localStorage = << >>

(***************************************************************************)
(* The Calculator class.  Each method is an operator from the instances cs *)
(* and the receiver i to the instances after the call and what the call    *)
(* returned: the receiver, a number, or a thrown error.                    *)
(***************************************************************************)
This(i) == [kind |-> "instance", id |-> i]
Value(v) == [kind |-> "number", val |-> v]
Text(str) == [kind |-> "string", val |-> str]
Thrown(err) == [kind |-> "throw", err |-> err]

\* A faulty "this.value = v; return this": returns new Calculator(v).
Assign_FreshInstance(cs, i, v) == [calc |-> Append(cs, v), ret |-> This(Len(cs) + 1)]

\* this.value = v; return this
Assign(cs, i, v) == [calc |-> [cs EXCEPT ![i] = v], ret |-> This(i)]

\* A faulty constructor: the accumulator is one field shared by every instance.
Calculator_constructor_Shared(cs, initialValue) ==
  [calc |-> Append([j \in DOMAIN cs |-> OrDefault(initialValue, FInt(0))],
                   OrDefault(initialValue, FInt(0))),
   ret |-> This(Len(cs) + 1)]

Calculator_constructor(cs, initialValue) ==
  [calc |-> Append(cs, OrDefault(initialValue, FInt(0))), ret |-> This(Len(cs) + 1)]

calculate(cs, initialValue) ==
  Calculator_constructor(cs, Given(OrDefault(initialValue, FInt(0))))

Calculator_add(cs, i, num) == Assign(cs, i, preciseAdd(cs[i], num))

\* A faulty subtract: the operands of preciseSubtract are swapped.
Calculator_subtract_Swapped(cs, i, num) == Assign(cs, i, preciseSubtract(num, cs[i]))

Calculator_subtract(cs, i, num) == Assign(cs, i, preciseSubtract(cs[i], num))

\* A faulty multiply: the operand is added.
Calculator_multiply_Adds(cs, i, num) == Assign(cs, i, preciseAdd(cs[i], num))

Calculator_multiply(cs, i, num) == Assign(cs, i, preciseMultiply(cs[i], num))

\* this.value = <outcome>; return this -- unless the outcome is a thrown error,
\* which leaves the method before the assignment.
AssignOutcome(cs, i, r) ==
  IF r.ok THEN Assign(cs, i, r.val) ELSE [calc |-> cs, ret |-> Thrown(r.err)]

\* A faulty divide: the caller's precision is not forwarded.
Calculator_divide_DefaultPrecision(cs, i, num, precision) ==
  AssignOutcome(cs, i, preciseDivide(cs[i], num, DefaultPrecision))

Calculator_divide(cs, i, num, precision) ==
  AssignOutcome(cs, i, preciseDivide(cs[i], num, OrDefault(precision, DefaultPrecision)))

Calculator_power(cs, i, exponent) == Assign(cs, i, MathPow(cs[i], exponent))

\* A faulty sqrt: an accumulator of 0 is rejected too.
Calculator_sqrt_RejectsZero(cs, i) ==
  IF FIsNegative(cs[i]) \/ FIsZero(cs[i])
  THEN [calc |-> cs, ret |-> Thrown(NegativeOperand)]
  ELSE Assign(cs, i, MathSqrt(cs[i]))

\* A faulty sqrt: the accumulator is made positive before it is validated.
Calculator_sqrt_MutatesFirst(cs, i) ==
  IF FIsNegative(cs[i])
  THEN [calc |-> [cs EXCEPT ![i] = FAbs(cs[i])], ret |-> Thrown(NegativeOperand)]
  ELSE Assign(cs, i, MathSqrt(cs[i]))

Calculator_sqrt(cs, i) ==
  IF FIsNegative(cs[i]) THEN [calc |-> cs, ret |-> Thrown(NegativeOperand)]
  ELSE Assign(cs, i, MathSqrt(cs[i]))

\* A faulty abs: the accumulator is negated.
Calculator_abs_Negates(cs, i) == Assign(cs, i, FNeg(cs[i]))

Calculator_abs(cs, i) == Assign(cs, i, FAbs(cs[i]))

Calculator_round(cs, i, decimals) ==
  LET multiplier == MathPow10(OrDefault(decimals, 0))
  IN  Assign(cs, i, RoundScaled(cs[i], multiplier))

Calculator_ceil(cs, i, decimals) ==
  LET multiplier == MathPow10(OrDefault(decimals, 0))
  IN  Assign(cs, i, CeilScaled(cs[i], multiplier))

Calculator_floor(cs, i, decimals) ==
  LET multiplier == MathPow10(OrDefault(decimals, 0))
  IN  Assign(cs, i, FloorScaled(cs[i], multiplier))

\* A faulty result: reading the accumulator resets it.
Calculator_result_Resets(cs, i) == [calc |-> [cs EXCEPT ![i] = FInt(0)], ret |-> Value(cs[i])]

Calculator_result(cs, i) == [calc |-> cs, ret |-> Value(cs[i])]

\* return <outcome>: the text, or the error thrown on the way to it.
ReturnText(cs, r) ==
  [calc |-> cs, ret |-> IF r.ok THEN Text(r.val) ELSE Thrown(r.err)]

\* A faulty format: removeTrailingZeros is not passed on.
Calculator_format_DropsFlag(cs, i, decimals, removeTrailingZeros) ==
  ReturnText(cs, formatNumber(cs[i], Given(OrDefault(decimals, DefaultDecimals)), Omitted))

Calculator_format(cs, i, decimals, removeTrailingZeros) ==
  ReturnText(cs, formatNumber(cs[i], Given(OrDefault(decimals, DefaultDecimals)),
                              Given(OrDefault(removeTrailingZeros, FALSE))))

Calculator_toThousands(cs, i, decimals) ==
  ReturnText(cs, formatThousands(cs[i],
                   Given(StringArg(IntegerToString(OrDefault(decimals, DefaultDecimals))))))

Calculator_toScientific(cs, i, decimals) ==
  ReturnText(cs, toScientificNotation(cs[i], Given(OrDefault(decimals, DefaultDecimals))))

(***************************************************************************)
(* Calls on the pure functions.                                            *)
(***************************************************************************)
FreeCaller(instances, calls, results) ==
  [scripted |-> FALSE, script |-> << >>,
   instances |-> instances, calls |-> calls, results |-> results]

\* The caller that makes the calls of script, each [op, args], in order.
ScriptedCaller(script) ==
  [scripted |-> TRUE, script |-> script, instances |-> 0, calls |-> 0, results |-> 0]

NoCall == [fn |-> "none", operator |-> "", precision |-> 0, out |-> Throw("none")]

PureCall(fn, operator, precision, out) ==
  [fn |-> fn, operator |-> operator, precision |-> precision, out |-> out]

NoMethod == [op |-> "none", inst |-> 0, args |-> << >>, pre |-> FZero(0), ret |-> Thrown("none")]

InitPure ==
  /\ UtilIdle
  /\ args \in OperandPairs
  /\ call = NoCall
  /\ calc = << >>
  /\ hist = << >>
  /\ last = NoMethod
  /\ budget = FreeCaller(0, 0, 0)

CallPreciseAdd ==
  /\ call = NoCall
  /\ call' = PureCall("preciseAdd", "", 0, Return(preciseAdd(Num(args[1]), Num(args[2]))))
  /\ UNCHANGED << args, calcVars, utilVars >>

CallPreciseSubtract ==
  /\ call = NoCall
  /\ call' = PureCall("preciseSubtract", "", 0,
                      Return(preciseSubtract(Num(args[1]), Num(args[2]))))
  /\ UNCHANGED << args, calcVars, utilVars >>

CallPreciseMultiply ==
  /\ call = NoCall
  /\ call' = PureCall("preciseMultiply", "", 0,
                      Return(preciseMultiply(Num(args[1]), Num(args[2]))))
  /\ UNCHANGED << args, calcVars, utilVars >>

CallPreciseDivide ==
  /\ call = NoCall
  /\ \E precision \in Precisions :
       call' = PureCall("preciseDivide", "", precision,
                        preciseDivide(Num(args[1]), Num(args[2]), precision))
  /\ UNCHANGED << args, calcVars, utilVars >>

CallPreciseCalculate ==
  /\ call = NoCall
  /\ \E operator \in Operators, precision \in Precisions :
       call' = PureCall("preciseCalculate", operator, precision,
                        preciseCalculate(Num(args[1]), operator, Num(args[2]), precision))
  /\ UNCHANGED << args, calcVars, utilVars >>

NextPure ==
  \/ CallPreciseAdd
  \/ CallPreciseSubtract
  \/ CallPreciseMultiply
  \/ CallPreciseDivide
  \/ CallPreciseCalculate

SpecPure == InitPure /\ [][NextPure]_vars

(***************************************************************************)
(* Calls on the formatting functions: the number formatted is Num(args[1]).*)
(***************************************************************************)
FormatLiterals ==
  GridLiterals \cup
  { Lit(FALSE, 314159, 5), Lit(FALSE, 31, 1), Lit(FALSE, 100, 0),
    Lit(FALSE, 120, 0), Lit(TRUE, 10, 0), Lit(FALSE, 1005, 3),
    Lit(TRUE, 25, 1), Lit(FALSE, 995, 2), Lit(FALSE, 123456789, 2),
    Lit(TRUE, 1234567, 0), Lit(FALSE, 1, 7) }
FormatDecimals == { Omitted, Given(0), Given(1), Given(4), Given(-1), Given(101) }
FormatFlags == { Omitted, Given(FALSE), Given(TRUE) }

FormatCall(fn, decimals, removeTrailingZeros, out) ==
  [fn |-> fn, decimals |-> decimals, removeTrailingZeros |-> removeTrailingZeros,
   out |-> out]

InitFormat ==
  /\ UtilIdle
  /\ args \in { << l, Lit(FALSE, 0, 0) >> : l \in FormatLiterals }
  /\ call = NoCall
  /\ calc = << >>
  /\ hist = << >>
  /\ last = NoMethod
  /\ budget = FreeCaller(0, 0, 0)

CallFormatNumber ==
  /\ call = NoCall
  /\ \E decimals \in FormatDecimals, removeTrailingZeros \in FormatFlags :
       call' = FormatCall("formatNumber", decimals, removeTrailingZeros,
                          formatNumber(Num(args[1]), decimals, removeTrailingZeros))
  /\ UNCHANGED << args, calcVars, utilVars >>

\* decimals as the number or as the string of it, or omitted.
ThousandsDecimals ==
  { Omitted } \cup
  { Given(NumberArg(d[1])) : d \in FormatDecimals \ { Omitted } } \cup
  { Given(StringArg(IntegerToString(d[1]))) : d \in FormatDecimals \ { Omitted } } \cup
  { Given(StringArg(<< "x" >>)) }

CallFormatThousands ==
  /\ call = NoCall
  /\ \E decimals \in ThousandsDecimals :
       call' = FormatCall("formatThousands", decimals, Omitted,
                          formatThousands(Num(args[1]), decimals))
  /\ UNCHANGED << args, calcVars, utilVars >>

CallToScientificNotation ==
  /\ call = NoCall
  /\ \E precision \in FormatDecimals :
       call' = FormatCall("toScientificNotation", precision, Omitted,
                          toScientificNotation(Num(args[1]), precision))
  /\ UNCHANGED << args, calcVars, utilVars >>

NextFormat ==
  \/ CallFormatNumber
  \/ CallFormatThousands
  \/ CallToScientificNotation

SpecFormat == InitFormat /\ [][NextFormat]_vars

(***************************************************************************)
(* Calls on Calculator instances.                                          *)
(***************************************************************************)
InitCalc ==
  /\ UtilIdle
  /\ args = << Lit(FALSE, 0, 0), Lit(FALSE, 0, 0) >>
  /\ call = NoCall
  /\ calc = << >>
  /\ hist = << >>
  /\ last = NoMethod
  /\ budget = FreeCaller(1, MaxCalls, MaxResults)

OptNum(opt) == IF opt = Omitted THEN Omitted ELSE Given(Num(opt[1]))

Accessors == { "result", "format", "toThousands", "toScientific" }

\* The argument lists the caller may pass to op now: those of the next call of
\* its script if that is a call of op, or any of free if it chooses freely.
Args(op, free) ==
  IF budget.scripted
  THEN IF budget.script # << >> /\ Head(budget.script).op = op
       THEN { Head(budget.script).args } ELSE { }
  ELSE free

\* The caller after a call counted under what ("instances", "calls", "results").
Spent(what) ==
  IF budget.scripted THEN [budget EXCEPT !.script = Tail(@)]
  ELSE [budget EXCEPT ![what] = @ - 1]

\* The effect of a constructor call that yielded r.
Made(op, initialValue, r) ==
  /\ budget.scripted \/ budget.instances > 0
  /\ calc' = r.calc
  /\ hist' = Append(hist, [init |-> initialValue, calls |-> << >>])
  /\ last' = [op |-> op, inst |-> r.ret.id, args |-> << initialValue >>,
              pre |-> FZero(0), ret |-> r.ret]
  /\ budget' = Spent("instances")
  /\ UNCHANGED << pureVars, utilVars >>

NewCalculator ==
  \E a \in Args("new Calculator", ConstructorArgs) :
    Made("new Calculator", a[1], Calculator_constructor(calc, OptNum(a[1])))

Calculate ==
  \E a \in Args("calculate", ConstructorArgs) :
    Made("calculate", a[1], calculate(calc, OptNum(a[1])))

\* The effect of a method call op(a) on instance i that yielded r.
\* The caller has a call of op left to make.
Allowed(op) ==
  \/ budget.scripted
  \/ IF op \in Accessors THEN budget.results > 0 ELSE budget.calls > 0

\* Some call of op, with arguments among free, can be made now: there is an
\* instance to make it on and the caller has one left.  No method of the
\* class tests anything else before it runs.
CanCall(op, free) == \E i \in DOMAIN calc, a \in Args(op, free) : Allowed(op)

Called(op, i, a, r) ==
  /\ Allowed(op)
  /\ calc' = r.calc
  /\ hist' = [hist EXCEPT ![i].calls =
                Append(@, [op |-> op, args |-> a, pre |-> calc[i], ret |-> r.ret])]
  /\ last' = [op |-> op, inst |-> i, args |-> a, pre |-> calc[i], ret |-> r.ret]
  /\ budget' = Spent(IF op \in Accessors THEN "results" ELSE "calls")
  /\ UNCHANGED << pureVars, utilVars >>

Add ==
  \E i \in DOMAIN calc, a \in Args("add", OperandArgs) :
    Called("add", i, a, Calculator_add(calc, i, Num(a[1])))

Subtract ==
  \E i \in DOMAIN calc, a \in Args("subtract", OperandArgs) :
    Called("subtract", i, a, Calculator_subtract(calc, i, Num(a[1])))

Multiply ==
  \E i \in DOMAIN calc, a \in Args("multiply", OperandArgs) :
    Called("multiply", i, a, Calculator_multiply(calc, i, Num(a[1])))

Divide ==
  \E i \in DOMAIN calc, a \in Args("divide", DivideArgs) :
    Called("divide", i, a, Calculator_divide(calc, i, Num(a[1]), a[2]))

Power ==
  \E i \in DOMAIN calc, a \in Args("power", PowerArgs) :
    Called("power", i, a, Calculator_power(calc, i, a[1]))

Sqrt ==
  \E i \in DOMAIN calc, a \in Args("sqrt", NoArgs) :
    Called("sqrt", i, a, Calculator_sqrt(calc, i))

Abs ==
  \E i \in DOMAIN calc, a \in Args("abs", NoArgs) :
    Called("abs", i, a, Calculator_abs(calc, i))

Round ==
  \E i \in DOMAIN calc, a \in Args("round", DecimalsArgs) :
    Called("round", i, a, Calculator_round(calc, i, a[1]))

Ceil ==
  \E i \in DOMAIN calc, a \in Args("ceil", DecimalsArgs) :
    Called("ceil", i, a, Calculator_ceil(calc, i, a[1]))

Floor ==
  \E i \in DOMAIN calc, a \in Args("floor", DecimalsArgs) :
    Called("floor", i, a, Calculator_floor(calc, i, a[1]))

Result ==
  \E i \in DOMAIN calc, a \in Args("result", NoArgs) :
    Called("result", i, a, Calculator_result(calc, i))

Format ==
  \E i \in DOMAIN calc, a \in Args("format", FormatArgs) :
    Called("format", i, a, Calculator_format(calc, i, a[1], a[2]))

ToThousands ==
  \E i \in DOMAIN calc, a \in Args("toThousands", ThousandsArgs) :
    Called("toThousands", i, a, Calculator_toThousands(calc, i, a[1]))

ToScientific ==
  \E i \in DOMAIN calc, a \in Args("toScientific", ScientificArgs) :
    Called("toScientific", i, a, Calculator_toScientific(calc, i, a[1]))

NextCalc ==
  \/ NewCalculator
  \/ Calculate
  \/ Add
  \/ Subtract
  \/ Multiply
  \/ Divide
  \/ Power
  \/ Sqrt
  \/ Abs
  \/ Round
  \/ Ceil
  \/ Floor
  \/ Result
  \/ Format
  \/ ToThousands
  \/ ToScientific

SpecCalc == InitCalc /\ [][NextCalc]_vars

(***************************************************************************)
(* One instance, read more often than it is changed.                       *)
(***************************************************************************)
AccessMutations == 1
AccessReads == 2

InitAccess ==
  /\ UtilIdle
  /\ args = << Lit(FALSE, 0, 0), Lit(FALSE, 0, 0) >>
  /\ call = NoCall
  /\ calc = << >>
  /\ hist = << >>
  /\ last = NoMethod
  /\ budget = FreeCaller(1, AccessMutations, AccessReads)

SpecAccess == InitAccess /\ [][NextCalc]_vars

(***************************************************************************)
(* Scripted callers: the documented chains, the documented chain with its  *)
(* four operations in every order, and families of short chains.           *)
(***************************************************************************)
Call(op, a) == [op |-> op, args |-> a]

\* calculate(10).add(5).multiply(2).subtract(7).divide(3).result()
ChainStart == Call("calculate", << Given(Lit(FALSE, 10, 0)) >>)
ChainSteps ==
  << Call("add", << Lit(FALSE, 5, 0) >>),
     Call("multiply", << Lit(FALSE, 2, 0) >>),
     Call("subtract", << Lit(FALSE, 7, 0) >>),
     Call("divide", << Lit(FALSE, 3, 0), Omitted >>) >>

Orders ==
  { p \in [DOMAIN ChainSteps -> DOMAIN ChainSteps] :
      \A j, k \in DOMAIN ChainSteps : p[j] = p[k] => j = k }

\* The documented chain with its operations in the order p.
OrderedChain(p) ==
  << ChainStart >> \o [j \in DOMAIN ChainSteps |-> ChainSteps[p[j]]]
                  \o << Call("result", << >>) >>

DocumentedOrder == << 1, 2, 3, 4 >>
DivideBeforeMultiply == << 1, 4, 2, 3 >>

DemoChains ==
  << << Call("calculate", << Given(Lit(FALSE, 314159, 5)) >>),
        Call("power", << 2 >>),
        Call("multiply", << Lit(FALSE, 2, 0) >>),
        Call("round", << Given(4) >>),
        Call("result", << >>) >>,
     << Call("calculate", << Given(Lit(FALSE, 12345678, 4)) >>),
        Call("add", << Lit(FALSE, 87654321, 4) >>),
        Call("format", << Given(2), Omitted >>) >>,
     << Call("calculate", << Given(Lit(FALSE, 123456789, 2)) >>),
        Call("multiply", << Lit(FALSE, 2, 0) >>),
        Call("toThousands", << Omitted >>) >>,
     << Call("calculate", << Given(Lit(FALSE, 100, 0)) >>),
        Call("add", << Lit(FALSE, 50, 0) >>),
        Call("multiply", << Lit(FALSE, 2, 0) >>),
        Call("subtract", << Lit(FALSE, 75, 0) >>),
        Call("divide", << Lit(FALSE, 5, 0), Omitted >>),
        Call("power", << 2 >>),
        Call("sqrt", << >>),
        Call("round", << Given(2) >>),
        Call("result", << >>) >>,
     << Call("new Calculator", << Given(Lit(TRUE, 5, 0)) >>),
        Call("abs", << >>),
        Call("result", << >>) >>,
     << Call("new Calculator", << Given(Lit(FALSE, 314159, 5)) >>),
        Call("ceil", << Given(2) >>),
        Call("floor", << Given(1) >>),
        Call("toScientific", << Given(3) >>) >>,
     << Call("new Calculator", << Omitted >>),
        Call("sqrt", << >>),
        Call("subtract", << Lit(FALSE, 4, 0) >>),
        Call("sqrt", << >>),
        Call("abs", << >>),
        Call("sqrt", << >>),
        Call("result", << >>) >> >>

\* new Calculator(v).abs().abs().result()
AbsLiterals == GridLiterals \cup { Lit(FALSE, 5, 0), Lit(TRUE, 5, 0) }
AbsChain(l) ==
  << Call("new Calculator", << Given(l) >>), Call("abs", << >>), Call("abs", << >>),
     Call("result", << >>) >>

\* calculate(v).sqrt().result()
SqrtChain(l) ==
  << Call("calculate", << Given(l) >>), Call("sqrt", << >>), Call("result", << >>) >>

\* calculate(v).format(decimals, removeTrailingZeros)
FormatChain(l, decimals, removeTrailingZeros) ==
  << Call("calculate", << Given(l) >>),
     Call("format", << decimals, removeTrailingZeros >>) >>

InitChain ==
  /\ UtilIdle
  /\ args = << Lit(FALSE, 0, 0), Lit(FALSE, 0, 0) >>
  /\ call = NoCall
  /\ calc = << >>
  /\ hist = << >>
  /\ last = NoMethod
  /\ \/ \E p \in Orders : budget = ScriptedCaller(OrderedChain(p))
     \/ \E k \in DOMAIN DemoChains : budget = ScriptedCaller(DemoChains[k])
     \/ \E l \in AbsLiterals : budget = ScriptedCaller(AbsChain(l))
     \/ \E l \in AbsLiterals : budget = ScriptedCaller(SqrtChain(l))
     \/ \E l \in FormatLiterals, decimals \in FormatDecimals,
           removeTrailingZeros \in FormatFlags :
          budget = ScriptedCaller(FormatChain(l, decimals, removeTrailingZeros))

SpecChain == InitChain /\ [][NextCalc]_vars

(***************************************************************************)
(* Additions and subtractions on an accumulator: calculate(a).add(b) and   *)
(* calculate(a).subtract(b) for the operand pairs of the pure calls, and   *)
(* calculate(x).multiply(y).add(b), .subtract(b), where the product has    *)
(* more digits than a literal of the caller.                               *)
(***************************************************************************)
AddChain(la, lb) ==
  << Call("calculate", << Given(la) >>), Call("add", << lb >>) >>

SubtractChain(la, lb) ==
  << Call("calculate", << Given(la) >>), Call("subtract", << lb >>) >>

\* The operands x, y and b: x * y has 14 decimal places.
WideOperands ==
  << << Lit(FALSE, 29233493, 7), Lit(FALSE, 96011316, 7), Lit(FALSE, 413466639, 7) >>,
     << Lit(FALSE, 34496833, 7), Lit(FALSE, 83164988, 6), Lit(FALSE, 1841040622, 7) >>,
     << Lit(FALSE, 54041767, 7), Lit(FALSE, 93209964, 7), Lit(TRUE, 343276188, 7) >> >>

WideChain(w, op) ==
  << Call("calculate", << Given(w[1]) >>), Call("multiply", << w[2] >>),
     Call(op, << w[3] >>) >>

InitScale ==
  /\ UtilIdle
  /\ args = << Lit(FALSE, 0, 0), Lit(FALSE, 0, 0) >>
  /\ call = NoCall
  /\ calc = << >>
  /\ hist = << >>
  /\ last = NoMethod
  /\ \/ \E ab \in OperandPairs : budget = ScriptedCaller(AddChain(ab[1], ab[2]))
     \/ \E ab \in OperandPairs : budget = ScriptedCaller(SubtractChain(ab[1], ab[2]))
     \/ \E k \in DOMAIN WideOperands, op \in { "add", "subtract" } :
          budget = ScriptedCaller(WideChain(WideOperands[k], op))

NextScale ==
  \/ Calculate
  \/ Add
  \/ Subtract
  \/ Multiply

SpecScale == InitScale /\ [][NextScale]_vars

(***************************************************************************)
(* Two instances.  The caller chooses freely, or makes the calls of a      *)
(* script, each on the instance it chooses among those constructed.        *)
(***************************************************************************)
ShareInstances == 2
ShareMutations == 1
ShareReads == 1

TwoInstanceScripts ==
  << << Call("new Calculator", << Given(Lit(FALSE, 10, 0)) >>),
        Call("calculate", << Given(Lit(TRUE, 4, 0)) >>),
        Call("add", << Lit(FALSE, 5, 0) >>),
        Call("multiply", << Lit(FALSE, 2, 0) >>),
        Call("abs", << >>),
        Call("divide", << Lit(FALSE, 3, 0), Omitted >>),
        Call("result", << >>),
        Call("result", << >>) >>,
     << Call("calculate", << Given(Lit(FALSE, 10, 0)) >>),
        Call("subtract", << Lit(FALSE, 7, 0) >>),
        Call("new Calculator", << Omitted >>),
        Call("sqrt", << >>),
        Call("add", << Lit(FALSE, 1, 1) >>),
        Call("toThousands", << Omitted >>),
        Call("result", << >>) >> >>

InitShare ==
  /\ UtilIdle
  /\ args = << Lit(FALSE, 0, 0), Lit(FALSE, 0, 0) >>
  /\ call = NoCall
  /\ calc = << >>
  /\ hist = << >>
  /\ last = NoMethod
  /\ \/ budget = FreeCaller(ShareInstances, ShareMutations, ShareReads)
     \/ \E k \in DOMAIN TwoInstanceScripts : budget = ScriptedCaller(TwoInstanceScripts[k])

SpecShare == InitShare /\ [][NextCalc]_vars

(***************************************************************************)
(* Timers.  setTimeout(callback, ms) adds a timer due ms from now and      *)
(* returns its id; clearTimeout(id) removes it.  The host fires a timer at *)
(* the instant it is due or later, when the event loop is free: until it   *)
(* has fired, code that runs first can still clear it.                     *)
(***************************************************************************)
Timer(id, due, arg) == [id |-> id, due |-> due, arg |-> arg]

setTimeout(ts, seq, at, ms, arg) == ts \cup { Timer(seq + 1, at + ms, arg) }

\* A faulty clearTimeout: the timer stays.
clearTimeout_Keeps(ts, id) == ts

clearTimeout(ts, id) == { t \in ts : t.id # id }

\* No timer is due.
NoneDue == \A t \in timers : t.due > now

Event(ev, t, n, x) == [ev |-> ev, t |-> t, n |-> n, x |-> x]

(***************************************************************************)
(* retry(fn, { retries, delay, onRetry }).  fn is the caller's: each call  *)
(* of it takes some time and then resolves with a value or rejects with an *)
(* error.  The steps are the synchronous stretches of the async function:  *)
(* from the call to the first await, and from one await to the next.       *)
(***************************************************************************)
MaxRetries == 2

RetryOptions ==
  [retries : 0..MaxRetries, delay : { 0, 5 }, onRetry : BOOLEAN]
FnValues == { "a", "b" }
FnErrors == { "E1", "E2" }
FnDurations == { 0, 1 }
\* How long after it is due the host fires the timer of sleep(delay).
Lateness == { 0, 1 }

\* attempt <= retries
LoopCondition(a, retries) == a <= retries

\* A faulty test: `attempt <= retries` for `attempt < retries`.
RetriesLeft_Inclusive(a, retries) == a <= retries

\* attempt < retries
RetriesLeft(a, retries) == a < retries

\* A faulty catch: the first error is kept.
Caught_KeepsFirst(lastErr, error) == IF lastErr = Undefined THEN error ELSE lastErr

\* lastError = error as Error
Caught(lastErr, error) == error

\* The loop, entered with attempt = a at time t and the error err caught last:
\* fn is called if the condition holds, and lastError is thrown otherwise.
Loop(a, t, err) ==
  /\ attempt' = a
  /\ IF LoopCondition(a, options.retries)
     THEN /\ pc' = "fn"
          /\ promise' = promise
          /\ log' = Append(log, Event("fn", t, a, ""))
     ELSE /\ pc' = "done"
          /\ promise' = [state |-> "rejected", value |-> err]
          /\ log' = Append(log, Event("reject", t, a, err))

InitRetry ==
  /\ UtilIdle
  /\ args = << Lit(FALSE, 0, 0), Lit(FALSE, 0, 0) >>
  /\ call = NoCall
  /\ calc = << >>
  /\ hist = << >>
  /\ last = NoMethod
  /\ budget = FreeCaller(0, 0, 0)

\* retry(fn, o) is called: up to the first `await fn()`.
CallRetry ==
  /\ pc = "idle"
  /\ \E o \in RetryOptions :
       /\ options' = o
       /\ attempt' = 0
       /\ pc' = "fn"
       /\ log' = Append(log, Event("fn", now, 0, ""))
  /\ UNCHANGED << pureVars, calcVars, now, timers, timerSeq, lastError, promise,
                  closureVars, localStorage >>

\* fn() resolves with v: `return await fn()`.
FnResolves ==
  /\ pc = "fn"
  /\ \E v \in FnValues, d \in FnDurations :
       /\ now' = now + d
       /\ promise' = [state |-> "fulfilled", value |-> v]
       /\ log' = Append(log, Event("resolve", now + d, attempt, v))
  /\ pc' = "done"
  /\ UNCHANGED << pureVars, calcVars, timers, timerSeq, options, attempt, lastError,
                  closureVars, localStorage >>

\* What the catch block logs before it awaits sleep(delay): the call of
\* onRetry, if there is one, and the sleep.
RetryEvents(t, error) ==
  (IF options.onRetry THEN << Event("onRetry", t, attempt + 1, error) >> ELSE << >>)
    \o << Event("sleep", t, options.delay, "") >>

\* fn() rejects with e: the catch block, up to `await sleep(delay)`, or, with
\* no retry left, on through the end of the loop to `throw lastError`.
FnRejects ==
  /\ pc = "fn"
  /\ \E e \in FnErrors, d \in FnDurations :
       /\ now' = now + d
       /\ lastError' = Caught(lastError, e)
       /\ IF RetriesLeft(attempt, options.retries)
          THEN /\ log' = Append(log, Event("fail", now + d, attempt, e))
                           \o RetryEvents(now + d, Caught(lastError, e))
               /\ timers' = setTimeout(timers, timerSeq, now + d, options.delay, 0)
               /\ timerSeq' = timerSeq + 1
               /\ pc' = "sleep"
               /\ UNCHANGED << attempt, promise >>
          ELSE /\ attempt' = attempt + 1
               /\ IF LoopCondition(attempt + 1, options.retries)
                  THEN /\ pc' = "fn"
                       /\ promise' = promise
                       /\ log' = Append(log, Event("fail", now + d, attempt, e))
                                   \o << Event("fn", now + d, attempt + 1, "") >>
                  ELSE /\ pc' = "done"
                       /\ promise' = [state |-> "rejected", value |-> Caught(lastError, e)]
                       /\ log' = Append(log, Event("fail", now + d, attempt, e))
                                   \o << Event("reject", now + d, attempt + 1,
                                               Caught(lastError, e)) >>
               /\ UNCHANGED << timers, timerSeq >>
  /\ UNCHANGED << pureVars, calcVars, options, closureVars, localStorage >>

\* The timer of sleep(delay) fires: attempt++, and the loop goes on.
SleepDone ==
  /\ pc = "sleep"
  /\ \E t \in timers, late \in Lateness :
       /\ now' = t.due + late
       /\ timers' = timers \ { t }
       /\ Loop(attempt + 1, t.due + late, lastError)
  /\ UNCHANGED << pureVars, calcVars, timerSeq, options, lastError, closureVars,
                  localStorage >>

NextRetry ==
  \/ CallRetry
  \/ FnResolves
  \/ FnRejects
  \/ SleepDone

\* fn settles each time it is called, and a timer that is due fires.
SpecRetry ==
  InitRetry /\ [][NextRetry]_vars /\ WF_vars(FnResolves \/ FnRejects) /\ WF_vars(SleepDone)
      /\ WF_vars(CallRetry)

(***************************************************************************)
(* debounce(func, wait, immediate) and throttle(func, wait, options).  The *)
(* state after construction is a closure with its timeout (and previous)   *)
(* and options; the log records every call of the returned function and    *)
(* every execution of func, with the time and the argument.                *)
(***************************************************************************)
MaxTime == 6
MaxInvocations == 4

Waits == { 2, 3 }
CallArgs == { "x", "y" }

\* The world outside the utilities: the calculator and the pure calls idle.
EngineIdle ==
  /\ args = << Lit(FALSE, 0, 0), Lit(FALSE, 0, 0) >>
  /\ call = NoCall
  /\ calc = << >>
  /\ hist = << >>
  /\ last = NoMethod
  /\ budget = FreeCaller(0, 0, 0)

Invocations == Len(SelectSeq(log, LAMBDA e : e.ev = "call"))

\* The clock advances, whether or not a timer is due.
Tick ==
  /\ now < MaxTime
  /\ now' = now + 1
  /\ UNCHANGED << pureVars, calcVars, timers, timerSeq, log, options, retryVars,
                  closureVars, localStorage >>

InitDebounce ==
  /\ EngineIdle
  /\ now = 0 /\ timers = { } /\ timerSeq = 0 /\ log = << >>
  /\ options \in [wait : Waits, immediate : BOOLEAN]
  /\ pc = "idle" /\ attempt = 0 /\ lastError = Undefined /\ promise = Pending
  /\ timeout = NoTimer /\ previous = 0 /\ localStorage = << >>

\* The returned function is called with argument a, whether or not a timer
\* is due at this instant.
CallDebounced ==
  /\ Invocations < MaxInvocations
  /\ \E a \in CallArgs :
       LET callNow == options.immediate /\ timeout = NoTimer
           kept == IF timeout # NoTimer THEN clearTimeout(timers, timeout) ELSE timers
       IN /\ timers' = setTimeout(kept, timerSeq, now, options.wait, a)
          /\ timerSeq' = timerSeq + 1
          /\ timeout' = timerSeq + 1
          /\ log' = Append(log, Event("call", now, 0, a))
                      \o (IF callNow THEN << Event("exec", now, 0, a) >> ELSE << >>)
  /\ UNCHANGED << pureVars, calcVars, now, options, retryVars, previous, localStorage >>

\* A timer that is due fires: later() runs.
DebounceLater ==
  \E t \in timers :
    /\ t.due <= now
    /\ timers' = timers \ { t }
    /\ timeout' = NoTimer
    /\ log' = IF ~options.immediate
              THEN Append(log, Event("exec", now, 0, t.arg))
              ELSE log
    /\ UNCHANGED << pureVars, calcVars, now, timerSeq, options, retryVars, previous,
                    localStorage >>

NextDebounce ==
  \/ CallDebounced
  \/ DebounceLater
  \/ Tick

SpecDebounce == InitDebounce /\ [][NextDebounce]_vars

\* Date.now() when the throttled function is made: a time since the epoch,
\* far more than any wait.
StartTime == 10

\* wait - (now - previous)
Remaining(wait, t, prev) == wait - (t - prev)

\* A faulty timer callback: previous is reset whatever leading is.
LaterPrevious_Resets(leading, t) == 0

\* previous = !leading ? 0 : Date.now()
LaterPrevious(leading, t) == IF ~leading THEN 0 ELSE t

InitThrottle ==
  /\ EngineIdle
  /\ now = StartTime /\ timers = { } /\ timerSeq = 0 /\ log = << >>
  /\ options \in [wait : Waits, leading : BOOLEAN, trailing : BOOLEAN]
  /\ pc = "idle" /\ attempt = 0 /\ lastError = Undefined /\ promise = Pending
  /\ timeout = NoTimer /\ previous = 0 /\ localStorage = << >>

\* The returned function is called with argument a, whether or not a timer
\* is due at this instant.
CallThrottled ==
  /\ Invocations < MaxInvocations
  /\ \E a \in CallArgs :
       LET prev == IF previous = 0 /\ ~options.leading THEN now ELSE previous
           remaining == Remaining(options.wait, now, prev)
       IN IF remaining <= 0 \/ remaining > options.wait
          THEN /\ timers' = IF timeout # NoTimer THEN clearTimeout(timers, timeout)
                            ELSE timers
               /\ timeout' = NoTimer
               /\ previous' = now
               /\ log' = log \o << Event("call", now, 0, a), Event("exec", now, 0, a) >>
               /\ UNCHANGED timerSeq
          ELSE IF timeout = NoTimer /\ options.trailing
          THEN /\ timers' = setTimeout(timers, timerSeq, now, remaining, a)
               /\ timerSeq' = timerSeq + 1
               /\ timeout' = timerSeq + 1
               /\ previous' = prev
               /\ log' = Append(log, Event("call", now, 0, a))
          ELSE /\ previous' = prev
               /\ log' = Append(log, Event("call", now, 0, a))
               /\ UNCHANGED << timers, timerSeq, timeout >>
  /\ UNCHANGED << pureVars, calcVars, now, options, retryVars, localStorage >>

\* A timer that is due fires: the trailing execution.
ThrottleLater ==
  \E t \in timers :
    /\ t.due <= now
    /\ timers' = timers \ { t }
    /\ previous' = LaterPrevious(options.leading, now)
    /\ timeout' = NoTimer
    /\ log' = Append(log, Event("exec", now, 0, t.arg))
    /\ UNCHANGED << pureVars, calcVars, now, timerSeq, options, retryVars, localStorage >>

\* The clock advances although a timer is due: the host fires it late.
TickLate ==
  /\ ~NoneDue
  /\ now < StartTime + MaxTime
  /\ now' = now + 1
  /\ UNCHANGED << pureVars, calcVars, timers, timerSeq, log, options, retryVars,
                  closureVars, localStorage >>

TickOn ==
  /\ NoneDue
  /\ now < StartTime + MaxTime
  /\ now' = now + 1
  /\ UNCHANGED << pureVars, calcVars, timers, timerSeq, log, options, retryVars,
                  closureVars, localStorage >>

NextThrottle ==
  \/ CallThrottled
  \/ ThrottleLater
  \/ TickOn
  \/ TickLate

SpecThrottle == InitThrottle /\ [][NextThrottle]_vars

(***************************************************************************)
(* compareVersions, satisfiesVersion and getVersionDiff.  Versions and     *)
(* ranges are strings of digits, lower-case letters, ".", "-", "+", " "    *)
(* and the operator characters.                                            *)
(***************************************************************************)
\* String.prototype.split for a separator that is one character of seps:
\* the pieces between the separators, empty pieces included.
RECURSIVE SplitFrom(_, _, _, _, _)
SplitFrom(str, seps, i, piece, acc) ==
  IF i > Len(str) THEN Append(acc, piece)
  ELSE IF str[i] \in seps THEN SplitFrom(str, seps, i + 1, << >>, Append(acc, piece))
  ELSE SplitFrom(str, seps, i + 1, Append(piece, str[i]), acc)

Split(str, seps) == SplitFrom(str, seps, 1, << >>, << >>)

\* split(/\s+/): a run of white space is one separator.
RECURSIVE SplitRunsFrom(_, _, _, _)
SplitRunsFrom(str, i, piece, acc) ==
  IF i > Len(str) THEN Append(acc, piece)
  ELSE IF str[i] \in WhiteSpaceChars
  THEN IF i > 1 /\ str[i - 1] \in WhiteSpaceChars
       THEN SplitRunsFrom(str, i + 1, piece, acc)
       ELSE SplitRunsFrom(str, i + 1, << >>, Append(acc, piece))
  ELSE SplitRunsFrom(str, i + 1, Append(piece, str[i]), acc)

SplitOnWhitespace(str) == SplitRunsFrom(str, 1, << >>, << >>)

Digits == { DigitChars[d] : d \in 1..10 }

\* version.replace(/^[^0-9]*/, '') in loose mode.
cleanVersion(version, loose) ==
  IF loose
  THEN LET skip == RunOf(version, { version[i] : i \in 1..Len(version) } \ Digits, 1)
       IN SubSeq(version, skip + 1, Len(version))
  ELSE version

\* parseInt(part, 10), NaN read as 0.
PartNumber(part) == OrIfNaN(ParseInt(part), 0)

\* The parts and the prerelease tag of a version: the first piece before a
\* "-" or "+" split on the delimiter, and the second piece, null if it is
\* missing or empty.
parseVersion(version, delimiter) ==
  LET pieces == Split(version, { "-", "+" })
      texts == Split(pieces[1], { delimiter })
      tag == IF Len(pieces) >= 2 THEN pieces[2] ELSE << >>
  IN [parts |-> [i \in 1..Len(texts) |-> PartNumber(texts[i])],
      prerelease |-> [null |-> tag = << >>, str |-> tag]]

\* String.prototype.localeCompare is called without a locale: the platform
\* compares in the default locale of the host, by the collation data the
\* host has for it, and answers -1, 0 or 1.  en-US stands for the locales
\* that order these texts as the root collation does (C, de-DE and sv-SE
\* among them); the others are locales whose data orders them otherwise.
ListedLocales ==
  { "en-US", "cs-CZ", "da-DK", "haw-US", "th-TH", "cy-GB", "sq-AL", "br-FR", "ig-NG",
    "uz-UZ", "om-ET" }

\* The characters of a prerelease tag in the order of the root collation.
RootCollation ==
  << << "." >>, << "0" >>, << "1" >>, << "2" >>, << "3" >>, << "4" >>, << "5" >>,
     << "6" >>, << "7" >>, << "8" >>, << "9" >>, << "a" >>, << "b" >>, << "c" >>,
     << "e" >>, << "h" >>, << "l" >>, << "p" >>, << "r" >>, << "t" >>, << "v" >> >>

\* The order with the element el put right after the element at.
InsertAfter(order, at, el) ==
  LET k == CHOOSE i \in 1..Len(order) : order[i] = at
  IN SubSeq(order, 1, k) \o << el >> \o SubSeq(order, k + 1, Len(order))

\* The order with each pair of letters of seconds put, as one element, after
\* its first letter.
RECURSIVE WithDigraphs(_, _)
WithDigraphs(order, digraphs) ==
  IF digraphs = << >> THEN order
  ELSE WithDigraphs(InsertAfter(order, << Head(digraphs)[1] >>, Head(digraphs)),
                    Tail(digraphs))

\* The collation elements of a locale, in order: Czech has ch after h,
\* Danish has aa after every letter, Hawaiian has the vowels first; Welsh,
\* Albanian and Breton have pairs of letters after their first letter, Igbo
\* has ch after b, and Uzbek and Oromo have their pairs after every letter.
CollationOrder(locale) ==
  CASE locale = "cs-CZ" -> InsertAfter(RootCollation, << "h" >>, << "c", "h" >>)
    [] locale = "da-DK" -> RootCollation \o << << "a", "a" >> >>
    [] locale = "haw-US" ->
         InsertAfter(SelectSeq(RootCollation, LAMBDA el : el # << "e" >>),
                     << "a" >>, << "e" >>)
    [] locale = "cy-GB" ->
         WithDigraphs(RootCollation, << << "c", "h" >>, << "l", "l" >>, << "p", "h" >>,
                                        << "r", "h" >>, << "t", "h" >> >>)
    [] locale = "sq-AL" ->
         WithDigraphs(RootCollation, << << "l", "l" >>, << "r", "r" >>, << "t", "h" >> >>)
    [] locale = "br-FR" -> WithDigraphs(RootCollation, << << "c", "h" >> >>)
    [] locale = "ig-NG" -> InsertAfter(RootCollation, << "b" >>, << "c", "h" >>)
    [] locale = "uz-UZ" -> RootCollation \o << << "c", "h" >> >>
    [] locale = "om-ET" -> RootCollation \o << << "c", "h" >>, << "p", "h" >> >>
    [] OTHER -> RootCollation

\* The characters a locale does not count: Thai skips punctuation.
CollationIgnored(locale) == IF locale = "th-TH" THEN { "." } ELSE { }

\* A host: its default locale and the collation data it has for it, the
\* elements in order and the characters that do not count.  The data is not
\* in the code: it differs from one locale to the next, and a host answers
\* every comparison by the data it has.
Host(locale) ==
  [locale |-> locale, order |-> CollationOrder(locale),
   ignored |-> CollationIgnored(locale)]

\* The hosts a run may be on.
HostLocales == { Host(locale) : locale \in ListedLocales }

CollationRank(el, host) == CHOOSE k \in 1..Len(host.order) : host.order[k] = el

\* Two characters that are one element of the order begin at position i.
IsContraction(str, i, host) ==
  /\ i < Len(str)
  /\ \E k \in 1..Len(host.order) : host.order[k] = << str[i], str[i + 1] >>

\* The ranks of the collation elements of str from position i on.
RECURSIVE CollationKeyFrom(_, _, _, _)
CollationKeyFrom(str, host, i, key) ==
  IF i > Len(str) THEN key
  ELSE IF str[i] \in host.ignored THEN CollationKeyFrom(str, host, i + 1, key)
  ELSE IF IsContraction(str, i, host)
  THEN CollationKeyFrom(str, host, i + 2,
                        Append(key, CollationRank(<< str[i], str[i + 1] >>, host)))
  ELSE CollationKeyFrom(str, host, i + 1, Append(key, CollationRank(<< str[i] >>, host)))

\* The comparison of two keys from position i on: -1, 0 or 1.
RECURSIVE LocaleCompareFrom(_, _, _)
LocaleCompareFrom(a, b, i) ==
  IF i > Len(a) /\ i > Len(b) THEN 0
  ELSE IF i > Len(a) THEN -1
  ELSE IF i > Len(b) THEN 1
  ELSE IF a[i] < b[i] THEN -1
  ELSE IF a[i] > b[i] THEN 1
  ELSE LocaleCompareFrom(a, b, i + 1)

\* a.localeCompare(b) on a host: by the collation data of its locale.
localeCompare(a, b, host) ==
  LocaleCompareFrom(CollationKeyFrom(a, host, 1, << >>),
                    CollationKeyFrom(b, host, 1, << >>), 1)

PartAt(parts, i) == IF i <= Len(parts) THEN parts[i] ELSE 0

\* The loop over the parts, from part i on: 1 or -1 at the first difference,
\* 0 if there is none.
RECURSIVE ComparePartsFrom(_, _, _)
ComparePartsFrom(parts1, parts2, i) ==
  IF i > Max(Len(parts1), Len(parts2)) THEN 0
  ELSE IF PartAt(parts1, i) > PartAt(parts2, i) THEN 1
  ELSE IF PartAt(parts1, i) < PartAt(parts2, i) THEN -1
  ELSE ComparePartsFrom(parts1, parts2, i + 1)

ComparePrerelease(prerelease1, prerelease2, host) ==
  IF prerelease1.null THEN 1
  ELSE IF prerelease2.null THEN -1
  ELSE LET num1 == ParseInt(prerelease1.str)
           num2 == ParseInt(prerelease2.str)
       IN IF ~num1.nan /\ ~num2.nan
          THEN (IF num1.val > num2.val THEN 1 ELSE IF num1.val < num2.val THEN -1 ELSE 0)
          ELSE localeCompare(prerelease1.str, prerelease2.str, host)

\* compareVersions(version1, version2, options) on a host.
compareVersions(version1, version2, o, host) ==
  LET v1Info == parseVersion(cleanVersion(version1, o.loose), o.delimiter)
      v2Info == parseVersion(cleanVersion(version2, o.loose), o.delimiter)
      main == ComparePartsFrom(v1Info.parts, v2Info.parts, 1)
  IN IF main # 0 THEN main
     ELSE IF o.includePrerelease /\ v1Info.prerelease # v2Info.prerelease
     THEN ComparePrerelease(v1Info.prerelease, v2Info.prerelease, host)
     ELSE 0

OperatorChars == { "<", ">", "=", "~", "^" }

\* part.match(/^([<>=~^]*)(.+)$/): the longest run of operator characters
\* that leaves at least one character for the version; no match for an empty
\* part.  An empty operator is "=".
parseCondition(part) ==
  IF Len(part) = 0 THEN [operator |-> << "=" >>, version |-> part]
  ELSE LET k == Min(RunOf(part, OperatorChars, 1), Len(part) - 1)
       IN [operator |-> IF k = 0 THEN << "=" >> ELSE SubSeq(part, 1, k),
           version |-> SubSeq(part, k + 1, Len(part))]

parseRange(rangeStr) ==
  LET parts == SplitOnWhitespace(rangeStr)
  IN [i \in 1..Len(parts) |-> parseCondition(parts[i])]

\* The number of characters of str up to position i that are in set cs, back
\* to the last that is not.
RECURSIVE RunBack(_, _, _)
RunBack(str, cs, i) ==
  IF i < 1 \/ str[i] \notin cs THEN 0 ELSE 1 + RunBack(str, cs, i - 1)

Trim(str) ==
  IF RunOf(str, WhiteSpaceChars, 1) = Len(str) THEN << >>
  ELSE SubSeq(str, RunOf(str, WhiteSpaceChars, 1) + 1,
              Len(str) - RunBack(str, WhiteSpaceChars, Len(str)))

HexLetters == << "a", "b", "c", "d", "e", "f" >>
HexCapitals == << "A", "B", "C", "D", "E", "F" >>

\* The value of a digit of a radix up to 16; 16 for another character.
RadixDigit(c) ==
  IF IsDigitChar(c) THEN DigitValue(c)
  ELSE IF \E k \in 1..6 : c \in { HexLetters[k], HexCapitals[k] }
  THEN 9 + (CHOOSE k \in 1..6 : c \in { HexLetters[k], HexCapitals[k] })
  ELSE 16

RECURSIVE BFromRadixFrom(_, _, _, _)
BFromRadixFrom(str, radix, i, acc) ==
  IF i > Len(str) THEN acc
  ELSE LET a2 == BAdd(BMulSmall(acc, radix), BFromInt(RadixDigit(str[i])))
       IN  IF Len(a2) >= 0 THEN BFromRadixFrom(str, radix, i + 1, a2) ELSE << >>

\* What Number(text) gives: a finite number, an infinity, or NaN.
NumberValue(x) == [kind |-> "number", val |-> x]
InfinityValue(s) == [kind |-> IF s = 1 THEN "-Infinity" ELSE "Infinity", val |-> FZero(0)]
NaNValue == [kind |-> "NaN", val |-> FZero(0)]

\* The nearest to (-1)^s * N / D among the multiples of 2^-1074, the unit of
\* the numbers below the normal range; ties to even.
SubnormalRatio(s, N, D) ==
  LET dm == BDivMod(BShl(N, 1074), D)
      half == BCmp(BShl(dm.r, 1), D)
      up == half > 0 \/ (half = 0 /\ BBit(dm.q, 0) = 1)
  IN FCanon(s, IF up THEN BAdd(dm.q, << 1 >>) ELSE dm.q, -1074)

\* The number nearest to (-1)^s * N / D, for N, D # 0: below 2^-1022 it has
\* fewer bits, and beyond the largest binary64 it is an infinity.
NearestNumber(s, N, D) ==
  IF BCmp(BShl(N, 1022), D) < 0 THEN NumberValue(SubnormalRatio(s, N, D))
  ELSE IF FExponent(FRatio(s, N, D, 0)) > 1023 THEN InfinityValue(s)
  ELSE NumberValue(FRatio(s, N, D, 0))

\* The number nearest to (-1)^s * N * 10^p10: an infinity from 10^310 on,
\* zero below 10^-325.
DecimalNumber(s, N, p10) ==
  IF BIsZero(N) THEN NumberValue(FZero(s))
  ELSE IF Len(BDigits(N)) + p10 > 310 THEN InfinityValue(s)
  ELSE IF Len(BDigits(N)) + p10 < -325 THEN NumberValue(FZero(s))
  ELSE IF p10 >= 0 THEN NearestNumber(s, BMul(N, BPow(10, p10)), << 1 >>)
  ELSE NearestNumber(s, N, BPow(10, -p10))

\* The value of the n digits of an exponent from position i on; an exponent
\* of more than 5 digits counts as 100000.
ExponentValue(str, i, n) ==
  LET zeros == RunOf(str, { "0" }, i)
  IN IF n - zeros > 5 THEN 100000 ELSE DigitsValue(str, i + zeros, n - zeros, 0)

InfinityText == << "I", "n", "f", "i", "n", "i", "t", "y" >>

\* A decimal literal: an optional sign, then Infinity, or digits with an
\* optional point and an optional exponent; anything else is NaN.
StrDecimalLiteral(str) ==
  LET s == IF str[1] = "-" THEN 1 ELSE 0
      from == IF str[1] \in { "+", "-" } THEN 2 ELSE 1
      ni == DigitRun(str, from)
      dot == from + ni <= Len(str) /\ str[from + ni] = "."
      nf == IF dot THEN DigitRun(str, from + ni + 1) ELSE 0
      at == from + ni + (IF dot THEN 1 + nf ELSE 0)
      hasExp == at <= Len(str) /\ str[at] \in { "e", "E" }
      signed == hasExp /\ at + 1 <= Len(str) /\ str[at + 1] \in { "+", "-" }
      efrom == at + 1 + (IF signed THEN 1 ELSE 0)
      ne == IF hasExp THEN DigitRun(str, efrom) ELSE 0
      end == IF hasExp THEN efrom + ne ELSE at
      exponent == IF ~hasExp THEN 0
                  ELSE (IF signed /\ str[at + 1] = "-" THEN -1 ELSE 1)
                         * ExponentValue(str, efrom, ne)
      digits == [k \in 1..(ni + nf) |->
                   DigitValue(str[IF k <= ni THEN from + k - 1 ELSE from + k])]
  IN IF SubSeq(str, from, Len(str)) = InfinityText THEN InfinityValue(s)
     ELSE IF ni + nf = 0 \/ (hasExp /\ ne = 0) \/ end # Len(str) + 1 THEN NaNValue
     ELSE DecimalNumber(s, BFromDigits(digits), exponent - nf)

\* The radix a prefix 0x, 0o or 0b stands for (either case); 10 without one.
RadixOfPrefix(str) ==
  IF Len(str) < 2 \/ str[1] # "0" THEN 10
  ELSE IF str[2] \in { "x", "X" } THEN 16
  ELSE IF str[2] \in { "o", "O" } THEN 8
  ELSE IF str[2] \in { "b", "B" } THEN 2
  ELSE 10

\* A literal with a radix prefix: digits of the radix, at least one, and no
\* sign.
NonDecimalIntegerLiteral(str, radix) ==
  IF Len(str) > 2 /\ \A i \in 3..Len(str) : RadixDigit(str[i]) < radix
  THEN (IF BIsZero(BFromRadixFrom(str, radix, 3, << >>)) THEN NumberValue(FZero(0))
        ELSE NearestNumber(0, BFromRadixFrom(str, radix, 3, << >>), << 1 >>))
  ELSE NaNValue

\* Number(text): white space at the ends is dropped; the empty text is 0; a
\* text is read whole, as a decimal literal or as an integer with a radix
\* prefix, and is NaN when it is neither.
NumberOf(text) ==
  IF Trim(text) = << >> THEN NumberValue(FZero(0))
  ELSE IF RadixOfPrefix(Trim(text)) # 10
  THEN NonDecimalIntegerLiteral(Trim(text), RadixOfPrefix(Trim(text)))
  ELSE StrDecimalLiteral(Trim(text))

\* An element of array.map(Number), undefined past the end.
NumberAt(texts, i) ==
  IF i <= Len(texts) THEN NumberOf(texts[i]) ELSE [kind |-> "undefined", val |-> FZero(0)]

\* x === y for two of these: NaN equals nothing, and -0 equals 0.
StrictEquals(x, y) ==
  /\ x.kind # "NaN"
  /\ x.kind = y.kind
  /\ x.kind = "number" => (FIsZero(x.val) /\ FIsZero(y.val)) \/ x.val = y.val

\* parseInt(text, 10) === parseInt(text, 10)
SameInteger(x, y) == ~x.nan /\ ~y.nan /\ x.val = y.val

checkCondition(versionToCheck, condition, o, host) ==
  LET comparison == compareVersions(versionToCheck, condition.version, o, host)
      range == Split(condition.version, { "." })
      check == Split(versionToCheck, { "." })
  IN CASE condition.operator = << "=" >> -> comparison = 0
       [] condition.operator = << ">" >> -> comparison > 0
       [] condition.operator = << ">", "=" >> -> comparison >= 0
       [] condition.operator = << "<" >> -> comparison < 0
       [] condition.operator = << "<", "=" >> -> comparison <= 0
       [] condition.operator = << "~" >> ->
            /\ StrictEquals(NumberAt(range, 1), NumberAt(check, 1))
            /\ StrictEquals(NumberAt(range, 2), NumberAt(check, 2))
            /\ comparison >= 0
       [] condition.operator = << "^" >> ->
            /\ SameInteger(ParseInt(range[1]), ParseInt(check[1]))
            /\ comparison >= 0
       [] OTHER -> FALSE

satisfiesVersion(version, range, o, host) ==
  LET conditions == parseRange(range)
  IN \A i \in 1..Len(conditions) : checkCondition(version, conditions[i], o, host)

\* parts[i] || 0
PartOrZero(parts, i) == IF i <= Len(parts) THEN parts[i] ELSE 0

getVersionDiff(version1, version2, o) ==
  LET v1Info == parseVersion(cleanVersion(version1, o.loose), o.delimiter)
      v2Info == parseVersion(cleanVersion(version2, o.loose), o.delimiter)
  IN IF PartOrZero(v1Info.parts, 1) # PartOrZero(v2Info.parts, 1) THEN "major"
     ELSE IF PartOrZero(v1Info.parts, 2) # PartOrZero(v2Info.parts, 2) THEN "minor"
     ELSE IF PartOrZero(v1Info.parts, 3) # PartOrZero(v2Info.parts, 3) THEN "patch"
     ELSE IF o.includePrerelease /\ v1Info.prerelease # v2Info.prerelease
     THEN "prerelease"
     ELSE "same"

\* The versions compared: plain, short and long, prefixed, with prerelease
\* tags (some that the locales order differently), written with the
\* delimiter "-", and with a space in front.
VersionStrings ==
  { << "1", ".", "2", ".", "3" >>,
    << "1", ".", "2", ".", "4" >>,
    << "1", ".", "3", ".", "0" >>,
    << "2", ".", "0", ".", "0" >>,
    << "1", ".", "0" >>,
    << "1", ".", "0", ".", "0" >>,
    << "1", ".", "0", ".", "0", ".", "1" >>,
    << "1", ".", "0", ".", "0", ".", "2" >>,
    << "v", "1", ".", "2", ".", "3" >>,
    << "v", "1", ".", "2", ".", "4" >>,
    << "1", ".", "0", ".", "0", "-", "a", "l", "p", "h", "a" >>,
    << "1", ".", "0", ".", "0", "-", "b", "e", "t", "a" >>,
    << "1", ".", "0", ".", "0", "-", "1" >>,
    << "1", ".", "0", ".", "0", "-", "0", "1" >>,
    << "1", "-", "2", "-", "3" >>,
    << "1", "-", "2", "-", "4" >>,
    << "1", ".", "0", ".", "0", "-", "c", "h" >>,
    << "1", ".", "0", ".", "0", "-", "e" >>,
    << "1", ".", "0", ".", "0", "-", "a", "a" >>,
    << "1", ".", "0", ".", "0", "-", "r", "c", ".", "1" >>,
    << "1", ".", "0", ".", "0", "-", "r", "c", "1" >>,
    << "1", "0", "0", "0", ".", "2", ".", "5" >>,
    << "1", ".", "0", ".", "0", "-", "l", "l" >>,
    << "1", ".", "0", ".", "0", "-", "l", "v" >>,
    << " ", "1", ".", "2", ".", "3" >> }

\* The ranges checked: each operator, two conditions, prefixed versions, an
\* operator that is not one, parts that Number reads but parseInt reads
\* otherwise, and two conditions with prerelease tags.
RangeStrings ==
  { << ">", "=", "1", ".", "0", ".", "0" >>,
    << ">", "=", "1", ".", "0", ".", "0", " ", "<", "2", ".", "0", ".", "0" >>,
    << "=", "1", ".", "2", ".", "3" >>,
    << "1", ".", "2", ".", "4" >>,
    << ">", "1", ".", "2", ".", "3" >>,
    << "<", "=", "1", ".", "2", ".", "3" >>,
    << "~", "1", ".", "2", ".", "0" >>,
    << "^", "1", ".", "0", ".", "0" >>,
    << "~", "v", "1", ".", "2", ".", "3" >>,
    << "^", "v", "1", ".", "2", ".", "3" >>,
    << "~", ">", "1", ".", "0" >>,
    << "~", "1", "e", "3", ".", "2", ".", "0" >>,
    << "~", "+", "1", ".", "2", ".", "0" >>,
    << ">", "1", ".", "0", ".", "0", "-", "e", " ",
       ">", "1", ".", "0", ".", "0", "-", "a" >> }
VersionOptions == [loose : BOOLEAN, delimiter : { ".", "-" }, includePrerelease : BOOLEAN]

VersionCall(fn, a, b, host, out) ==
  [fn |-> fn, a |-> a, b |-> b, host |-> host, out |-> out]

\* The options are chosen; a run is one call with them on some host, which
\* the log holds.
InitVersion ==
  /\ EngineIdle
  /\ now = 0 /\ timers = { } /\ timerSeq = 0 /\ log = << >>
  /\ options \in VersionOptions
  /\ pc = "idle" /\ attempt = 0 /\ lastError = Undefined /\ promise = Pending
  /\ timeout = NoTimer /\ previous = 0 /\ localStorage = << >>

CallCompareVersions ==
  /\ log = << >>
  /\ \E a \in VersionStrings, b \in VersionStrings, host \in HostLocales :
       log' = << VersionCall("compareVersions", a, b, host,
                             compareVersions(a, b, options, host)) >>
  /\ UNCHANGED << pureVars, calcVars, now, timers, timerSeq, options, retryVars,
                  closureVars, localStorage >>

CallSatisfiesVersion ==
  /\ log = << >>
  /\ \E a \in VersionStrings, b \in RangeStrings, host \in HostLocales :
       log' = << VersionCall("satisfiesVersion", a, b, host,
                             satisfiesVersion(a, b, options, host)) >>
  /\ UNCHANGED << pureVars, calcVars, now, timers, timerSeq, options, retryVars,
                  closureVars, localStorage >>

CallGetVersionDiff ==
  /\ log = << >>
  /\ \E a \in VersionStrings, b \in VersionStrings, host \in HostLocales :
       log' = << VersionCall("getVersionDiff", a, b, host,
                             getVersionDiff(a, b, options)) >>
  /\ UNCHANGED << pureVars, calcVars, now, timers, timerSeq, options, retryVars,
                  closureVars, localStorage >>

NextVersion ==
  \/ CallCompareVersions
  \/ CallSatisfiesVersion
  \/ CallGetVersionDiff

SpecVersion == InitVersion /\ [][NextVersion]_vars

(***************************************************************************)
(* localStorage.  window.localStorage maps keys to texts and holds no more *)
(* than its quota.  setLocalStorage writes JSON.stringify(value) of an     *)
(* object (null and the arrays are objects) and String(value) of anything  *)
(* else; getLocalStorage gives back what JSON.parse makes of the text, or  *)
(* the text itself when it is no JSON.  The values are those JSON knows    *)
(* (null, the booleans, numbers, strings, and arrays and objects of them), *)
(* undefined and the numbers that are not finite.  A character of a text   *)
(* is a string of one character when it is a printable ASCII character     *)
(* other than the grave accent, a tab, a line feed, a form feed or a       *)
(* carriage return; any other code unit is held as the six characters      *)
(* \uxxxx of its escape, in one string.                                    *)
(***************************************************************************)
MaxStorageOps == 3

\* The characters of a literal text, one by one.
Chars(str) == [k \in 1..Len(str) |-> SubSeq(str, k, k)]

JSUndefined == [type |-> "undefined"]
JSNull == [type |-> "null"]
JSBoolean(b) == [type |-> "boolean", bool |-> b]
\* A number: finite, an infinity or NaN.
JSNumber(x) == [type |-> "number", num |-> x]
JSString(s) == [type |-> "string", str |-> s]
JSArray(elements) == [type |-> "array", elements |-> elements]
\* An object: its own properties in property order, each with key and value.
JSObject(members) == [type |-> "object", members |-> members]
Member(key, value) == [key |-> key, value |-> value]

Quote == "\""
NullText == Chars("null")
UndefinedText == Chars("undefined")
TrueText == Chars("true")
FalseText == Chars("false")
NaNText == Chars("NaN")
ObjectText == Chars("[object Object]")
ValueKey == Chars("value")
ExpiryKey == Chars("expiry")

\* The code units 32 to 126, but for the grave accent (96), which is held
\* like the code units outside this range.
PrintableChars ==
  Chars(" !\"#$%&'()*+,-./0123456789:;<=>?@ABCDEFGHIJKLMNOPQRSTUVWXYZ[\\]^_")
    \o << "\\u0060" >> \o Chars("abcdefghijklmnopqrstuvwxyz{|}~")

HexDigitChars == Chars("0123456789abcdef")
HexDigit(d) == HexDigitChars[d + 1]

\* The character of a code unit.
CodeUnit(code) ==
  IF code \in 32..126 THEN PrintableChars[code - 31]
  ELSE IF code = 9 THEN "\t"
  ELSE IF code = 10 THEN "\n"
  ELSE IF code = 12 THEN "\f"
  ELSE IF code = 13 THEN "\r"
  ELSE "\\u" \o HexDigit(code \div 4096) \o HexDigit((code \div 256) % 16)
         \o HexDigit((code \div 16) % 16) \o HexDigit(code % 16)

\* The value of the n hexadecimal digits of str from position i on.
RECURSIVE HexValue(_, _, _, _)
HexValue(str, i, n, acc) ==
  IF n = 0 THEN acc ELSE HexValue(str, i + 1, n - 1, 16 * acc + RadixDigit(str[i]))

\* The code unit of a character.
CodeOf(c) ==
  IF Len(c) = 6 THEN HexValue(Chars(c), 3, 4, 0)
  ELSE IF c = "\t" THEN 9
  ELSE IF c = "\n" THEN 10
  ELSE IF c = "\f" THEN 12
  ELSE IF c = "\r" THEN 13
  ELSE 31 + (CHOOSE k \in 1..Len(PrintableChars) : PrintableChars[k] = c)

IsLeadSurrogate(c) == Len(c) = 6 /\ CodeOf(c) \in 55296..56319
IsTrailSurrogate(c) == Len(c) = 6 /\ CodeOf(c) \in 56320..57343

\* A character inside the quotes of a JSON text: the quote, the backslash
\* and the control characters are escaped, and so is half a surrogate pair.
JSONEscaped(c) ==
  IF c = Quote THEN << "\\", Quote >>
  ELSE IF c = "\\" THEN << "\\", "\\" >>
  ELSE IF c = "\t" THEN << "\\", "t" >>
  ELSE IF c = "\n" THEN << "\\", "n" >>
  ELSE IF c = "\f" THEN << "\\", "f" >>
  ELSE IF c = "\r" THEN << "\\", "r" >>
  ELSE IF Len(c) = 1 THEN << c >>
  ELSE IF CodeOf(c) = 8 THEN << "\\", "b" >>
  ELSE IF CodeOf(c) < 32 \/ CodeOf(c) \in 55296..57343 THEN Chars(c)
  ELSE << c >>

RECURSIVE QuoteFrom(_, _, _)
QuoteFrom(s, i, acc) ==
  IF i > Len(s) THEN Append(acc, Quote)
  ELSE IF i < Len(s) /\ IsLeadSurrogate(s[i]) /\ IsTrailSurrogate(s[i + 1])
  THEN QuoteFrom(s, i + 2, acc \o << s[i], s[i + 1] >>)
  ELSE QuoteFrom(s, i + 1, acc \o JSONEscaped(s[i]))

\* QuoteJSONString
QuoteJSONString(s) == QuoteFrom(s, 1, << Quote >>)

\* Number::toString, of the numbers that are not finite too.
NumberText(x) ==
  IF x.kind = "NaN" THEN NaNText
  ELSE IF x.kind = "Infinity" THEN InfinityText
  ELSE IF x.kind = "-Infinity" THEN << "-" >> \o InfinityText
  ELSE NumberToString(x.val)

\* JSON.stringify(value) of a value that is not undefined: a number that is
\* not finite is written null, an undefined element of an array is written
\* null, and a property of an object whose value is undefined is left out.
RECURSIVE SerializeJSONProperty(_)
RECURSIVE SerializeJSONArray(_, _, _)
RECURSIVE SerializeJSONObject(_, _, _)
SerializeJSONProperty(value) ==
  IF value.type = "null" THEN NullText
  ELSE IF value.type = "boolean" THEN (IF value.bool THEN TrueText ELSE FalseText)
  ELSE IF value.type = "number"
  THEN (IF value.num.kind = "number" THEN NumberToString(value.num.val) ELSE NullText)
  ELSE IF value.type = "string" THEN QuoteJSONString(value.str)
  ELSE IF value.type = "array"
  THEN << "[" >> \o SerializeJSONArray(value.elements, 1, << >>) \o << "]" >>
  ELSE << "{" >> \o SerializeJSONObject(value.members, 1, << >>) \o << "}" >>

SerializeJSONArray(elements, i, acc) ==
  IF i > Len(elements) THEN acc
  ELSE SerializeJSONArray(elements, i + 1,
         acc \o (IF i > 1 THEN << "," >> ELSE << >>)
             \o (IF elements[i].type = "undefined" THEN NullText
                 ELSE SerializeJSONProperty(elements[i])))

SerializeJSONObject(members, i, acc) ==
  IF i > Len(members) THEN acc
  ELSE IF members[i].value.type = "undefined" THEN SerializeJSONObject(members, i + 1, acc)
  ELSE SerializeJSONObject(members, i + 1,
         acc \o (IF acc # << >> THEN << "," >> ELSE << >>)
             \o QuoteJSONString(members[i].key) \o << ":" >>
             \o SerializeJSONProperty(members[i].value))

JSONStringify(value) == SerializeJSONProperty(value)

StartsWithAt(str, i, pat) ==
  /\ i + Len(pat) - 1 <= Len(str)
  /\ SubSeq(str, i, i + Len(pat) - 1) = pat

\* The white space of a JSON text.
JSONWhiteSpace == { " ", "\t", "\n", "\r" }

\* The first position from i on that holds no white space.
SkipWhiteSpace(text, i) == i + RunOf(text, JSONWhiteSpace, i)

\* What parsing from a position gives: a value and the position after it, or
\* nothing when the text is no JSON there.
Parsed(v, next) == [ok |-> TRUE, v |-> v, next |-> next]
Unparsed == [ok |-> FALSE, v |-> JSUndefined, next |-> 0]

\* The position after the fraction that begins at position i, if one does,
\* and 0 for a point without a digit after it.
JSONFractionEnd(text, i) ==
  IF i > Len(text) \/ text[i] # "." THEN i
  ELSE IF DigitRun(text, i + 1) = 0 THEN 0
  ELSE i + 1 + DigitRun(text, i + 1)

\* The same for the exponent: e or E, an optional sign, and digits.
JSONExponentEnd(text, i) ==
  IF i = 0 THEN 0
  ELSE IF i > Len(text) \/ text[i] \notin { "e", "E" } THEN i
  ELSE IF i + 1 <= Len(text) /\ text[i + 1] \in { "+", "-" }
  THEN (IF DigitRun(text, i + 2) = 0 THEN 0 ELSE i + 2 + DigitRun(text, i + 2))
  ELSE IF DigitRun(text, i + 1) = 0 THEN 0
  ELSE i + 1 + DigitRun(text, i + 1)

\* The position after the JSON number that begins at position i: an optional
\* minus, 0 or digits that do not begin with 0, an optional fraction and an
\* optional exponent; 0 when there is no such number.
JSONNumberEnd(text, i) ==
  LET from == IF text[i] = "-" THEN i + 1 ELSE i
  IN IF DigitRun(text, from) = 0 THEN 0
     ELSE JSONExponentEnd(text,
            JSONFractionEnd(text, IF text[from] = "0" THEN from + 1
                                  ELSE from + DigitRun(text, from)))

\* The number read from position i up to position end.
JSONNumberAt(text, i, end) ==
  IF end = 0 THEN Unparsed
  ELSE Parsed(JSNumber(StrDecimalLiteral(SubSeq(text, i, end - 1))), end)

\* The character an escape letter stands for.
JSONUnescaped(c) ==
  IF c = "b" THEN CodeUnit(8)
  ELSE IF c = "f" THEN "\f"
  ELSE IF c = "n" THEN "\n"
  ELSE IF c = "r" THEN "\r"
  ELSE IF c = "t" THEN "\t"
  ELSE c

\* A code unit below 32.
IsControl(c) ==
  IF Len(c) = 6 THEN CodeOf(c) < 32 ELSE c \in { "\t", "\n", "\f", "\r" }

\* The characters of the JSON string whose opening quote is before position
\* i, up to its closing quote: a control character is an error, and a
\* backslash begins an escape.
RECURSIVE JSONStringFrom(_, _, _)
JSONStringFrom(text, i, acc) ==
  IF i > Len(text) THEN Unparsed
  ELSE IF text[i] = Quote THEN Parsed(JSString(acc), i + 1)
  ELSE IF IsControl(text[i]) THEN Unparsed
  ELSE IF text[i] # "\\" THEN JSONStringFrom(text, i + 1, Append(acc, text[i]))
  ELSE IF i + 1 > Len(text) THEN Unparsed
  ELSE IF text[i + 1] \in { Quote, "\\", "/", "b", "f", "n", "r", "t" }
  THEN JSONStringFrom(text, i + 2, Append(acc, JSONUnescaped(text[i + 1])))
  ELSE IF /\ text[i + 1] = "u"
          /\ i + 5 <= Len(text)
          /\ \A k \in (i + 2)..(i + 5) : RadixDigit(text[k]) < 16
  THEN JSONStringFrom(text, i + 6, Append(acc, CodeUnit(HexValue(text, i + 2, 4, 0))))
  ELSE Unparsed

\* A key that is an array index: the canonical text of an integer from 0 to
\* 2^32 - 2.
MaxArrayIndex == Chars("4294967294")

RECURSIVE DigitsBefore(_, _, _)
DigitsBefore(a, b, i) ==
  IF i > Len(a) THEN FALSE
  ELSE IF a[i] # b[i] THEN DigitValue(a[i]) < DigitValue(b[i])
  ELSE DigitsBefore(a, b, i + 1)

\* Of two texts of digits without leading zeros, the first is the smaller.
IndexBefore(a, b) == Len(a) < Len(b) \/ (Len(a) = Len(b) /\ DigitsBefore(a, b, 1))

IsArrayIndex(key) ==
  /\ Len(key) > 0
  /\ DigitRun(key, 1) = Len(key)
  /\ (key[1] = "0" => Len(key) = 1)
  /\ ~IndexBefore(MaxArrayIndex, key)

HasMember(members, key) == \E k \in 1..Len(members) : members[k].key = key

\* How many of the members come before a new property key: those with an
\* array index when key is none, and those with a smaller one when it is
\* one.
MembersBefore(members, key) ==
  IF IsArrayIndex(key)
  THEN Cardinality({ k \in 1..Len(members) :
                       IsArrayIndex(members[k].key) /\ IndexBefore(members[k].key, key) })
  ELSE Len(members)

\* The members after the value is given to the key: a property that is there
\* keeps its place, and a new one comes after the others, array indices
\* first and in ascending order.
PutMember(members, key, value) ==
  IF HasMember(members, key)
  THEN [k \in 1..Len(members) |->
          IF members[k].key = key THEN Member(key, value) ELSE members[k]]
  ELSE SubSeq(members, 1, MembersBefore(members, key))
         \o << Member(key, value) >>
         \o SubSeq(members, MembersBefore(members, key) + 1, Len(members))

RECURSIVE JSONValueAt(_, _)
RECURSIVE JSONElementsAt(_, _, _)
RECURSIVE JSONMembersAt(_, _, _)

\* After an element r of an array: a comma and the next element, or the
\* closing bracket.
JSONElementsNext(text, i, acc) ==
  IF i > Len(text) THEN Unparsed
  ELSE IF text[i] = "," THEN JSONElementsAt(text, SkipWhiteSpace(text, i + 1), acc)
  ELSE IF text[i] = "]" THEN Parsed(JSArray(acc), i + 1)
  ELSE Unparsed

JSONElementsAfter(text, r, acc) ==
  IF r.ok THEN JSONElementsNext(text, SkipWhiteSpace(text, r.next), Append(acc, r.v))
  ELSE Unparsed

JSONElementsAt(text, i, acc) == JSONElementsAfter(text, JSONValueAt(text, i), acc)

\* After the value r of the property key: a comma and the next property, or
\* the closing brace.
JSONMembersNext(text, i, acc) ==
  IF i > Len(text) THEN Unparsed
  ELSE IF text[i] = "," THEN JSONMembersAt(text, SkipWhiteSpace(text, i + 1), acc)
  ELSE IF text[i] = "}" THEN Parsed(JSObject(acc), i + 1)
  ELSE Unparsed

JSONMembersAfter(text, key, r, acc) ==
  IF r.ok THEN JSONMembersNext(text, SkipWhiteSpace(text, r.next),
                               PutMember(acc, key, r.v))
  ELSE Unparsed

\* After the key: a colon and the value.
JSONMemberValue(text, key, i, acc) ==
  IF i > Len(text) \/ text[i] # ":" THEN Unparsed
  ELSE JSONMembersAfter(text, key.v.str,
                        JSONValueAt(text, SkipWhiteSpace(text, i + 1)), acc)

JSONMemberKey(text, key, acc) ==
  IF key.ok THEN JSONMemberValue(text, key, SkipWhiteSpace(text, key.next), acc)
  ELSE Unparsed

JSONMembersAt(text, i, acc) ==
  IF i > Len(text) \/ text[i] # Quote THEN Unparsed
  ELSE JSONMemberKey(text, JSONStringFrom(text, i + 1, << >>), acc)

\* The position after the white space that follows the opening bracket or
\* brace at position i.
JSONInside(text, i) == SkipWhiteSpace(text, i + 1)

\* The JSON value that begins at position i of text.
JSONValueAt(text, i) ==
  IF i > Len(text) THEN Unparsed
  ELSE IF text[i] = "{"
  THEN (IF StartsWithAt(text, JSONInside(text, i), << "}" >>)
        THEN Parsed(JSObject(<< >>), JSONInside(text, i) + 1)
        ELSE JSONMembersAt(text, JSONInside(text, i), << >>))
  ELSE IF text[i] = "["
  THEN (IF StartsWithAt(text, JSONInside(text, i), << "]" >>)
        THEN Parsed(JSArray(<< >>), JSONInside(text, i) + 1)
        ELSE JSONElementsAt(text, JSONInside(text, i), << >>))
  ELSE IF text[i] = Quote THEN JSONStringFrom(text, i + 1, << >>)
  ELSE IF StartsWithAt(text, i, NullText) THEN Parsed(JSNull, i + Len(NullText))
  ELSE IF StartsWithAt(text, i, TrueText) THEN Parsed(JSBoolean(TRUE), i + Len(TrueText))
  ELSE IF StartsWithAt(text, i, FalseText)
  THEN Parsed(JSBoolean(FALSE), i + Len(FalseText))
  ELSE IF text[i] = "-" \/ IsDigitChar(text[i])
  THEN JSONNumberAt(text, i, JSONNumberEnd(text, i))
  ELSE Unparsed

SyntaxError == "SyntaxError"

\* The text is one value and white space around it.
JSONWhole(text, r) ==
  IF r.ok /\ SkipWhiteSpace(text, r.next) = Len(text) + 1 THEN Return(r.v)
  ELSE Throw(SyntaxError)

\* JSON.parse(text): the value, or a SyntaxError.
JSONParse(text) == JSONWhole(text, JSONValueAt(text, SkipWhiteSpace(text, 1)))

TypeError == "TypeError"

\* ToString(value): undefined and null elements of an array are joined as
\* empty texts; an object is "[object Object]", and a TypeError when it has a
\* property toString of its own, which JSON cannot make callable.
RECURSIVE ToStringOf(_)
RECURSIVE JoinFrom(_, _, _)
JoinNext(elements, i, acc, r) ==
  IF r.ok
  THEN JoinFrom(elements, i + 1, acc \o (IF i > 1 THEN << "," >> ELSE << >>) \o r.val)
  ELSE r

JoinFrom(elements, i, acc) ==
  IF i > Len(elements) THEN Return(acc)
  ELSE JoinNext(elements, i, acc,
                IF elements[i].type \in { "undefined", "null" } THEN Return(<< >>)
                ELSE ToStringOf(elements[i]))

ToStringOf(value) ==
  IF value.type = "undefined" THEN Return(UndefinedText)
  ELSE IF value.type = "null" THEN Return(NullText)
  ELSE IF value.type = "boolean" THEN Return(IF value.bool THEN TrueText ELSE FalseText)
  ELSE IF value.type = "number" THEN Return(NumberText(value.num))
  ELSE IF value.type = "string" THEN Return(value.str)
  ELSE IF value.type = "array" THEN JoinFrom(value.elements, 1, << >>)
  ELSE IF HasMember(value.members, Chars("toString")) THEN Throw(TypeError)
  ELSE Return(ObjectText)

\* String(value) of a value that is no object.
StringOf(value) == ToStringOf(value).val

\* The number a text that may have thrown is read as.
NumberOfText(r) == IF r.ok THEN Return(NumberOf(r.val)) ELSE r

\* ToNumber(value): an array or an object by way of its text.
ToNumber(value) ==
  IF value.type = "undefined" THEN Return(NaNValue)
  ELSE IF value.type = "null" THEN Return(NumberValue(FZero(0)))
  ELSE IF value.type = "boolean" THEN Return(NumberValue(FInt(IF value.bool THEN 1 ELSE 0)))
  ELSE IF value.type = "number" THEN Return(value.num)
  ELSE NumberOfText(ToStringOf(value))

IsNegativeNumber(x) == x.kind = "-Infinity" \/ (x.kind = "number" /\ x.val.s = 1)
IsZeroNumber(x) == x.kind = "number" /\ FIsZero(x.val)

\* x * y, for a product within the range of the finite numbers.
NumberTimes(x, y) ==
  IF x.kind = "NaN" \/ y.kind = "NaN" THEN NaNValue
  ELSE IF x.kind = "number" /\ y.kind = "number" THEN NumberValue(FMul(x.val, y.val))
  ELSE IF IsZeroNumber(x) \/ IsZeroNumber(y) THEN NaNValue
  ELSE InfinityValue(IF IsNegativeNumber(x) = IsNegativeNumber(y) THEN 0 ELSE 1)

\* x + y, for a sum within the range of the finite numbers.
NumberPlus(x, y) ==
  IF x.kind = "NaN" \/ y.kind = "NaN" THEN NaNValue
  ELSE IF x.kind = "number" /\ y.kind = "number" THEN NumberValue(FAdd(x.val, y.val))
  ELSE IF x.kind = "number" THEN y
  ELSE IF y.kind = "number" \/ x.kind = y.kind THEN x
  ELSE NaNValue

\* x > y
NumberGreater(x, y) ==
  IF x.kind = "NaN" \/ y.kind = "NaN" THEN FALSE
  ELSE IF x.kind = "number" /\ y.kind = "number" THEN FIsNegative(FSub(y.val, x.val))
  ELSE IF x.kind = y.kind THEN FALSE
  ELSE x.kind = "Infinity" \/ y.kind = "-Infinity"

\* typeof value === 'object'
IsObject(value) == value.type \in { "null", "array", "object" }

\* The number of code units the storage holds: its keys and its texts.
RECURSIVE StorageSize(_)
StorageSize(ls) ==
  IF DOMAIN ls = { } THEN 0
  ELSE LET key == CHOOSE k \in DOMAIN ls : TRUE
       IN Len(key) + Len(ls[key]) + StorageSize([k \in DOMAIN ls \ { key } |-> ls[k]])

\* localStorage.setItem(key, text) under a quota: the storage with the text
\* under the key, or the QuotaExceededError of a storage that would hold
\* more than the quota.
setItem(ls, key, text, quota) ==
  LET stored == [k \in DOMAIN ls \cup { key } |-> IF k = key THEN text ELSE ls[k]]
  IN IF StorageSize(stored) <= quota THEN [ok |-> TRUE, ls |-> stored]
     ELSE [ok |-> FALSE, ls |-> ls]

\* const stringValue = typeof value === 'object' ? JSON.stringify(value) :
\* String(value)
StoredText(value) == IF IsObject(value) THEN JSONStringify(value) ELSE StringOf(value)

\* setLocalStorage(key, value): the JSON text of an object and the String of
\* another value are stored; an error of setItem is caught and logged (ok is
\* FALSE), and the storage is left as it was.
setLocalStorage(ls, key, value, quota) == setItem(ls, key, StoredText(value), quota)

HasItem(ls, key) == key \in DOMAIN ls

\* return JSON.parse(value), or value when that throws.
ParsedOrText(text, r) == IF r.ok THEN r.val ELSE JSString(text)

\* A parameter with a default initialiser: an argument that is undefined,
\* or left out, takes the default.
DefaultTo(argument, default) == IF argument.type = "undefined" THEN default ELSE argument

\* What getLocalStorage returns for its parameter defaultValue: any = null.
ReadText(ls, key, defaultValue) ==
  IF ~HasItem(ls, key) THEN defaultValue
  ELSE ParsedOrText(ls[key], JSONParse(ls[key]))

\* getLocalStorage(key, defaultValue): the default for a missing key, else
\* the parsed text, or the text itself when it does not parse.
getLocalStorage(ls, key, defaultValue) == ReadText(ls, key, DefaultTo(defaultValue, JSNull))

\* localStorage.removeItem(key)
removeLocalStorage(ls, key) == [k \in DOMAIN ls \ { key } |-> ls[k]]

\* localStorage.clear()
clearLocalStorage(ls) == << >>

\* now.getTime()
GetTime(t) == NumberValue(FInt(t))

\* expiry: now.getTime() + expiryInSeconds * 1000
ExpiryOf(t, expiryInSeconds) ==
  NumberPlus(GetTime(t), NumberTimes(expiryInSeconds, NumberValue(FInt(1000))))

\* const item = { value: value, expiry: ... }
ExpiryItem(value, expiryInSeconds, t) ==
  JSObject(<< Member(ValueKey, value),
              Member(ExpiryKey, JSNumber(ExpiryOf(t, expiryInSeconds))) >>)

setLocalStorageWithExpiry(ls, key, value, expiryInSeconds, t, quota) ==
  setLocalStorage(ls, key, ExpiryItem(value, expiryInSeconds, t), quota)

\* !value: undefined, null, false, 0, NaN and the empty string are falsy.
Falsy(value) ==
  \/ value.type \in { "undefined", "null" }
  \/ value.type = "boolean" /\ ~value.bool
  \/ value.type = "number" /\ (value.num.kind = "NaN" \/ IsZeroNumber(value.num))
  \/ value.type = "string" /\ value.str = << >>

\* value[key] for a key that no prototype has: the property of an object,
\* and undefined of any other value and of an object without it.
Get(value, key) ==
  IF value.type = "object" /\ HasMember(value.members, key)
  THEN value.members[CHOOSE k \in 1..Len(value.members) : value.members[k].key = key].value
  ELSE JSUndefined

\* now.getTime() > expiry, for an expiry that is a number.
Expired(t, expiry) == NumberGreater(GetTime(t), expiry)

\* The rest of getLocalStorageWithExpiry for an item with a truthy expiry,
\* read as the number expiry: a TypeError of the comparison is caught and
\* the default returned.
ReadItem(ls, key, defaultValue, t, itemStr, expiry) ==
  IF ~expiry.ok THEN [ls |-> ls, out |-> defaultValue]
  ELSE IF Expired(t, expiry.val)
  THEN [ls |-> removeLocalStorage(ls, key), out |-> defaultValue]
  ELSE [ls |-> ls, out |-> Get(itemStr, ValueKey)]

ReadStored(ls, key, defaultValue, t, itemStr) ==
  IF Falsy(itemStr) THEN [ls |-> ls, out |-> defaultValue]
  ELSE IF Falsy(Get(itemStr, ExpiryKey)) THEN [ls |-> ls, out |-> itemStr]
  ELSE ReadItem(ls, key, defaultValue, t, itemStr, ToNumber(Get(itemStr, ExpiryKey)))

\* getLocalStorageWithExpiry(key, defaultValue) at time t: what it returns
\* (the stored value, the default, or all that is stored when that has no
\* truthy expiry) and the storage it leaves.
getLocalStorageWithExpiry(ls, key, defaultValue, t) ==
  ReadStored(ls, key, DefaultTo(defaultValue, JSNull), t, getLocalStorage(ls, key, JSNull))

\* const testKey = '__storage_test__'
TestKey == "__storage_test__"

\* The rest of isLocalStorageSupported for what setItem did: false when it
\* threw, else the test key is removed and the answer is true.
TestRemoved(r) ==
  IF r.ok THEN [ok |-> TRUE, ls |-> removeLocalStorage(r.ls, TestKey)]
  ELSE [ok |-> FALSE, ls |-> r.ls]

\* isLocalStorageSupported(): the test key is set to its own name and
\* removed; ok is what the call returns, ls the storage it leaves, in which
\* nothing is under the test key unless setItem threw.
isLocalStorageSupported(ls, quota) ==
  TestRemoved(setItem(ls, TestKey, Chars(TestKey), quota))

\* The room the storage has, in code units: enough for any one item, and
\* for some pairs of items but not for others.
Quota == 70

\* The keys written and read: that of the demo, and the one
\* isLocalStorageSupported tests with.
StorageKeys == { "tempData", TestKey }
\* The keys values are stored under with an expiry.
ExpiryKeys == { "tempData" }
\* The values stored with an expiry: the object of the demo, and a number
\* that JSON does not know.
StoredValues ==
  { JSObject(<< Member(Chars("message"), JSString(Chars("temp"))) >>),
    JSNumber(NaNValue) }
\* The values setLocalStorage is called with: false, and an object whose
\* expiry is a text.
PlainValues ==
  { JSBoolean(FALSE),
    JSObject(<< Member(ExpiryKey, JSString(Chars("1e3"))) >>) }
\* The defaults reads are made with: none (undefined), and a text.
DefaultValues == { JSUndefined, JSString(Chars("d")) }
ExpirySeconds == { NumberValue(FInt(-1)), NumberValue(FInt(1)), InfinityValue(0) }
\* The instants at which calls are made, in milliseconds after StartTime: at
\* 990 the clock reads 1000, and 1990 and 1991 are the expiry of a value set
\* for a second at 990 and the millisecond after it.
Instants == { 990, 1990, 1991 }

\* The log: each call with its time and key (none for a clear); a set with
\* its value and seconds, a put (setLocalStorage) with its value, both with
\* whether the storage took the text (kept); a get with the default it was
\* called with (value), what it returned (out) and whether the key is in
\* storage afterwards (kept); a call of isLocalStorageSupported with the
\* test key and what it returned (out).
StorageEvent(ev, t, key, value, seconds, out, kept) ==
  [ev |-> ev, t |-> t, key |-> key, value |-> value, seconds |-> seconds,
   out |-> out, kept |-> kept]

NoSeconds == NumberValue(FZero(0))

InitStorage ==
  /\ EngineIdle
  /\ now \in { StartTime + t : t \in Instants }
  /\ timers = { } /\ timerSeq = 0 /\ log = << >> /\ options = << >>
  /\ pc = "idle" /\ attempt = 0 /\ lastError = Undefined /\ promise = Pending
  /\ timeout = NoTimer /\ previous = 0 /\ localStorage = << >>

SetLocalStorage ==
  /\ Len(log) < MaxStorageOps
  /\ \E key \in StorageKeys, v \in PlainValues :
       LET r == setLocalStorage(localStorage, key, v, Quota)
       IN /\ localStorage' = r.ls
          /\ log' = Append(log, StorageEvent("put", now, key, v, NoSeconds, JSUndefined,
                                             r.ok))
  /\ UNCHANGED << pureVars, calcVars, now, timers, timerSeq, options, retryVars,
                  closureVars >>

SetLocalStorageWithExpiry ==
  /\ Len(log) < MaxStorageOps
  /\ \E key \in ExpiryKeys, v \in StoredValues, s \in ExpirySeconds :
       LET r == setLocalStorageWithExpiry(localStorage, key, v, s, now, Quota)
       IN /\ localStorage' = r.ls
          /\ log' = Append(log, StorageEvent("set", now, key, v, s, JSUndefined, r.ok))
  /\ UNCHANGED << pureVars, calcVars, now, timers, timerSeq, options, retryVars,
                  closureVars >>

GetLocalStorageWithExpiry ==
  /\ Len(log) < MaxStorageOps
  /\ \E key \in StorageKeys, d \in DefaultValues :
       LET r == getLocalStorageWithExpiry(localStorage, key, d, now)
       IN /\ localStorage' = r.ls
          /\ log' = Append(log, StorageEvent("get", now, key, d, NoSeconds, r.out,
                                             HasItem(r.ls, key)))
  /\ UNCHANGED << pureVars, calcVars, now, timers, timerSeq, options, retryVars,
                  closureVars >>

RemoveLocalStorage ==
  /\ Len(log) < MaxStorageOps
  /\ \E key \in StorageKeys :
       /\ localStorage' = removeLocalStorage(localStorage, key)
       /\ log' = Append(log, StorageEvent("remove", now, key, JSUndefined, NoSeconds,
                                          JSUndefined, FALSE))
  /\ UNCHANGED << pureVars, calcVars, now, timers, timerSeq, options, retryVars,
                  closureVars >>

ClearLocalStorage ==
  /\ Len(log) < MaxStorageOps
  /\ localStorage' = clearLocalStorage(localStorage)
  /\ log' = Append(log, StorageEvent("clear", now, "", JSUndefined, NoSeconds,
                                     JSUndefined, FALSE))
  /\ UNCHANGED << pureVars, calcVars, now, timers, timerSeq, options, retryVars,
                  closureVars >>

IsLocalStorageSupported ==
  /\ Len(log) < MaxStorageOps
  /\ LET r == isLocalStorageSupported(localStorage, Quota)
     IN /\ localStorage' = r.ls
        /\ log' = Append(log, StorageEvent("supported", now, TestKey, JSUndefined,
                                           NoSeconds, JSBoolean(r.ok), FALSE))
  /\ UNCHANGED << pureVars, calcVars, now, timers, timerSeq, options, retryVars,
                  closureVars >>

\* Time passes, up to a later instant.
Elapse ==
  /\ \E t \in Instants :
       /\ StartTime + t > now
       /\ now' = StartTime + t
  /\ UNCHANGED << pureVars, calcVars, timers, timerSeq, log, options, retryVars,
                  closureVars, localStorage >>

NextStorage ==
  \/ SetLocalStorage
  \/ SetLocalStorageWithExpiry
  \/ GetLocalStorageWithExpiry
  \/ RemoveLocalStorage
  \/ ClearLocalStorage
  \/ IsLocalStorageSupported
  \/ Elapse

SpecStorage == InitStorage /\ [][NextStorage]_vars

(***************************************************************************)
(* Properties of the precise functions, over the calls of SpecPure.  The   *)
(* operands of a call are the numbers Num(args[1]) and Num(args[2]).       *)
(***************************************************************************)
\* a === b on numbers: the two zeros are equal.
FEq(x, y) == (FIsZero(x) /\ FIsZero(y)) \/ x = y

SupportedOperators == { "+", "-", "*", "/" }

IntAbs(n) == IF n < 0 THEN -n ELSE n

RECURSIVE Pow10Small(_)
Pow10Small(k) == IF k = 0 THEN 1 ELSE 10 * Pow10Small(k - 1)

\* The integer la * 10^pl, for the literal la and pl >= la.pl.
Scaled(la, pl) == (IF la.neg THEN -la.n ELSE la.n) * Pow10Small(pl - la.pl)

\* The number the decimal n / 10^pl denotes, for an integer n.
DecimalOf(n, pl) == DecimalValue(n < 0, BFromInt(IntAbs(n)), pl)

\* The numbers the exact decimal sum, difference and product of two literals
\* denote.
ExactSum(la, lb) ==
  DecimalOf(Scaled(la, Max(la.pl, lb.pl)) + Scaled(lb, Max(la.pl, lb.pl)),
            Max(la.pl, lb.pl))

ExactDifference(la, lb) ==
  DecimalOf(Scaled(la, Max(la.pl, lb.pl)) - Scaled(lb, Max(la.pl, lb.pl)),
            Max(la.pl, lb.pl))

ExactProduct(la, lb) ==
  DecimalValue(la.neg # lb.neg, BMul(BFromInt(la.n), BFromInt(lb.n)), la.pl + lb.pl)

\* C4: preciseDivide throws the division-by-zero error exactly when b is zero
\* (0 or -0), whatever a and the precision are, and returns otherwise.
C4_DivideByZeroIffZeroDivisor ==
  call.fn = "preciseDivide" =>
    IF args[2].n = 0 THEN call.out = Throw(DivisionByZero) ELSE call.out.ok

C4_Witness ==
  /\ call.fn = "preciseDivide"
  /\ args[2].n = 0
  /\ args[1].n # 0
  /\ call.precision # DefaultPrecision
  /\ call.out = Throw(DivisionByZero)

\* C5: preciseCalculate throws the unsupported-operator error exactly for the
\* operator symbols outside '+', '-', '*', '/', whatever a and b are.
C5_UnsupportedIffOutsideFour ==
  call.fn = "preciseCalculate" =>
    (call.out = Throw(UnsupportedOperator) <=> call.operator \notin SupportedOperators)

C5_Witness ==
  /\ call.fn = "preciseCalculate"
  /\ call.operator = "%"
  /\ call.out = Throw(UnsupportedOperator)

\* What the function that operator stands for yields when called directly.
Direct(operator, a, b, precision) ==
  CASE operator = "+" -> Return(preciseAdd(a, b))
    [] operator = "-" -> Return(preciseSubtract(a, b))
    [] operator = "*" -> Return(preciseMultiply(a, b))
    [] operator = "/" -> preciseDivide(a, b, precision)

\* C6: for each of the four operators, preciseCalculate(a, op, b, precision)
\* ends as the direct call of preciseAdd, preciseSubtract, preciseMultiply or
\* preciseDivide does: with the same value or with the same error.
C6_CalculateEqualsDirectCall ==
  (call.fn = "preciseCalculate" /\ call.operator \in SupportedOperators) =>
    call.out = Direct(call.operator, Num(args[1]), Num(args[2]), call.precision)

C6_Witness ==
  /\ call.fn = "preciseCalculate"
  /\ call.operator = "-"
  /\ args = << Lit(FALSE, 15, 1), Lit(FALSE, 12, 1) >>
  /\ call.out = Return(Num(Lit(FALSE, 3, 1)))

\* C7: for '+', '-' and '*' the outcome of preciseCalculate is the same for
\* every precision: it is the outcome for the default precision.
C7_PrecisionOnlyForDivision ==
  (call.fn = "preciseCalculate" /\ call.operator \in { "+", "-", "*" }) =>
    call.out = preciseCalculate(Num(args[1]), call.operator, Num(args[2]),
                                DefaultPrecision)

C7_Witness ==
  /\ call.fn = "preciseCalculate"
  /\ call.operator = "*"
  /\ call.precision = 0
  /\ args = << Lit(FALSE, 1, 1), Lit(FALSE, 2, 1) >>
  /\ call.out = Return(Num(Lit(FALSE, 2, 2)))

\* C8: preciseAdd and preciseSubtract return the number of the exact decimal
\* sum and difference of their operands, a number with at most max(da, db)
\* decimal places.
C8_ExactSumAndDifference ==
  /\ call.fn = "preciseAdd" =>
       /\ FEq(call.out.val, ExactSum(args[1], args[2]))
       /\ getDecimalPlaces(call.out.val)
            <= Max(getDecimalPlaces(Num(args[1])), getDecimalPlaces(Num(args[2])))
  /\ call.fn = "preciseSubtract" =>
       /\ FEq(call.out.val, ExactDifference(args[1], args[2]))
       /\ getDecimalPlaces(call.out.val)
            <= Max(getDecimalPlaces(Num(args[1])), getDecimalPlaces(Num(args[2])))

\* preciseAdd(0.1, 0.2) is 0.3, which 0.1 + 0.2 is not.
C8_Witness ==
  /\ call.fn = "preciseAdd"
  /\ args = << Lit(FALSE, 1, 1), Lit(FALSE, 2, 1) >>
  /\ call.out = Return(Num(Lit(FALSE, 3, 1)))
  /\ FAdd(Num(args[1]), Num(args[2])) # Num(Lit(FALSE, 3, 1))

\* C9: preciseMultiply returns the number of the exact decimal product of its
\* operands, and the same number when the operands are swapped.
C9_ExactProductEitherOrder ==
  call.fn = "preciseMultiply" =>
    /\ FEq(call.out.val, ExactProduct(args[1], args[2]))
    /\ FEq(call.out.val, preciseMultiply(Num(args[2]), Num(args[1])))

\* preciseMultiply(0.1, 0.2) is 0.02, which 0.1 * 0.2 is not.
C9_Witness ==
  /\ call.fn = "preciseMultiply"
  /\ args = << Lit(FALSE, 1, 1), Lit(FALSE, 2, 1) >>
  /\ call.out = Return(Num(Lit(FALSE, 2, 2)))
  /\ FMul(Num(args[1]), Num(args[2])) # Num(Lit(FALSE, 2, 2))

\* |x| * 10^pl exactly, as a number not yet rounded to 53 bits.
ScaleExact(x, pl) == [s |-> 0, m |-> BMul(x.m, BPow(10, pl)), e |-> x.e]

\* The natural number an integer-valued x >= 0 is.
Magnitude(x) == BShl(x.m, x.e)

\* The integer nearest to |x| * 10^pl.
NearestScaled(x, pl) == Magnitude(MathRound(ScaleExact(x, pl)))

\* | K - 10^pl * X / Y | <= 1/2 for naturals K, X, Y with Y # 0, where K and
\* X / Y are of the same sign iff same.
WithinHalf(K, same, X, Y, pl) ==
  LET k2 == BMulSmall(BMul(K, Y), 2)
      x2 == BMulSmall(BMul(X, BPow(10, pl)), 2)
      d  == IF ~same THEN BAdd(k2, x2)
            ELSE IF BCmp(k2, x2) >= 0 THEN BSub(k2, x2) ELSE BSub(x2, k2)
  IN  BCmp(d, Y) <= 0

\* r is the quotient la / lb of two literals rounded to pl decimal places:
\* r is the number of a decimal K / 10^pl that lies within half a unit of the
\* last place of la / lb.
IsRoundedQuotient(r, la, lb, pl) ==
  LET K    == NearestScaled(r, pl)
      X    == BMul(BFromInt(la.n), BPow(10, lb.pl))
      Y    == BMul(BFromInt(lb.n), BPow(10, la.pl))
      same == BIsZero(K) \/ BIsZero(X) \/ ((r.s = 1) <=> (la.neg # lb.neg))
  IN  /\ FEq(r, DecimalValue(r.s = 1, K, pl))
      /\ WithinHalf(K, same, X, Y, pl)

\* C10: for b # 0, preciseDivide(a, b, precision) is a / b rounded to
\* precision decimal places: the result is a decimal of at most precision
\* places within half a unit of the last place of a / b (hence a / b itself
\* when a / b has no more places than that).
C10_QuotientRoundedToPrecision ==
  (call.fn = "preciseDivide" /\ call.out.ok) =>
    IsRoundedQuotient(call.out.val, args[1], args[2], call.precision)

\* preciseAdd(a, b) + preciseSubtract(a, b), the sum taken by the caller.
SumOfSumAndDifference(a, b) == FAdd(preciseAdd(a, b), preciseSubtract(a, b))

\* C11 as stated: once preciseSubtract(a, b) has returned, the sum of
\* preciseAdd(a, b) and of what it returned equals 2 * a.
C11_SumAndDifferenceGiveTwiceA ==
  call.fn = "preciseSubtract" =>
    FEq(FAdd(preciseAdd(Num(args[1]), Num(args[2])), call.out.val),
        FMul(FInt(2), Num(args[1])))

\* C11, amended: once preciseSubtract(a, b) has returned, the sum of
\* preciseAdd(a, b) and of what it returned, rounded to max(da, db) decimal
\* places, equals 2 * a.
C11_RoundedSumAndDifferenceGiveTwiceA ==
  call.fn = "preciseSubtract" =>
    FEq(RoundScaled(FAdd(preciseAdd(Num(args[1]), Num(args[2])), call.out.val),
                    MathPow10(Max(getDecimalPlaces(Num(args[1])),
                                  getDecimalPlaces(Num(args[2]))))),
        FMul(FInt(2), Num(args[1])))

\* preciseSubtract(0.1, 0.2) returned -0.1; with preciseAdd(0.1, 0.2) = 0.3
\* the sum is not 0.2 until it is rounded to one decimal place.
C11_Witness ==
  /\ call.fn = "preciseSubtract"
  /\ args = << Lit(FALSE, 1, 1), Lit(FALSE, 2, 1) >>
  /\ call.out = Return(Num(Lit(TRUE, 1, 1)))
  /\ SumOfSumAndDifference(Num(args[1]), Num(args[2])) # Num(Lit(FALSE, 2, 1))
  /\ RoundScaled(SumOfSumAndDifference(Num(args[1]), Num(args[2])), MathPow10(1))
       = Num(Lit(FALSE, 2, 1))

(***************************************************************************)
(* Properties of the formatting functions, over the calls of SpecFormat.   *)
(***************************************************************************)
RECURSIVE WithoutTrailing(_, _)
WithoutTrailing(str, c) ==
  IF Len(str) > 0 /\ str[Len(str)] = c
  THEN WithoutTrailing(SubSeq(str, 1, Len(str) - 1), c) ELSE str

\* str without a last character c, if it has one.
WithoutLast(str, c) ==
  IF Len(str) > 0 /\ str[Len(str)] = c THEN SubSeq(str, 1, Len(str) - 1) ELSE str

\* A fixed-decimal text without the trailing zeros of its fractional part and
\* without the decimal point they leave bare; a text with no fractional part
\* is left as it is.
FractionStripped(str) ==
  IF IndexOf(str, ".") = -1 THEN str ELSE WithoutLast(WithoutTrailing(str, "0"), ".")

MutatingOps ==
  { "add", "subtract", "multiply", "divide", "power", "sqrt", "abs",
    "round", "ceil", "floor" }

\* A mutating call that completed.
Completed(c) == c.op \in MutatingOps /\ c.ret.kind # "throw"

\* The accumulator of instance i after the k-th call made on it: what the
\* next call found or, after the latest call, what the instance holds.
After(i, k) ==
  IF k < Len(hist[i].calls) THEN hist[i].calls[k + 1].pre ELSE calc[i]

\* The documented transform of the mutating operation op(a), applied to v.
Transform(op, a, v) ==
  CASE op = "add"      -> preciseAdd(v, Num(a[1]))
    [] op = "subtract" -> preciseSubtract(v, Num(a[1]))
    [] op = "multiply" -> preciseMultiply(v, Num(a[1]))
    [] op = "divide"   -> preciseDivide(v, Num(a[1]),
                                        OrDefault(a[2], DefaultPrecision)).val
    [] op = "power"    -> MathPow(v, a[1])
    [] op = "sqrt"     -> MathSqrt(v)
    [] op = "abs"      -> FAbs(v)
    [] op = "round"    -> RoundScaled(v, MathPow10(OrDefault(a[1], 0)))
    [] op = "ceil"     -> CeilScaled(v, MathPow10(OrDefault(a[1], 0)))
    [] op = "floor"    -> FloorScaled(v, MathPow10(OrDefault(a[1], 0)))

\* The transforms of the completed mutating calls among the first n of calls,
\* applied to v0 in call order.
RECURSIVE Composed(_, _, _)
Composed(calls, n, v0) ==
  IF n = 0 THEN v0
  ELSE IF Completed(calls[n])
       THEN Transform(calls[n].op, calls[n].args, Composed(calls, n - 1, v0))
       ELSE Composed(calls, n - 1, v0)

\* The accumulator a constructor argument gives: 0 when it is omitted.
Constructed(initialValue) ==
  IF initialValue = Omitted THEN FInt(0) ELSE Num(initialValue[1])

\* C1: a call that throws -- sqrt() on an accumulator v < 0, divide(0, p) --
\* leaves the accumulator at v: the instance holds v after it, a result()
\* made next returns v, and a mutating call made next is applied to v and
\* returns the instance.
C1_FailedCallLeavesAccumulator ==
  \A i \in DOMAIN hist : \A k \in DOMAIN hist[i].calls :
    LET c == hist[i].calls[k]
    IN  c.ret.kind = "throw" =>
          /\ c.op \in MutatingOps =>
               \/ c.op = "sqrt" /\ FIsNegative(c.pre)
               \/ c.op = "divide" /\ c.args[1].n = 0
          /\ After(i, k) = c.pre
          /\ k < Len(hist[i].calls) =>
               LET n == hist[i].calls[k + 1]
               IN  /\ n.op = "result" => n.ret = Value(c.pre)
                   /\ Completed(n) =>
                        /\ n.ret = This(i)
                        /\ After(i, k + 1) = Transform(n.op, n.args, c.pre)

\* sqrt() threw on a negative accumulator and the result() after it returned
\* that accumulator.
C1_Witness ==
  \E i \in DOMAIN hist :
    /\ Len(hist[i].calls) = 2
    /\ hist[i].calls[1].op = "sqrt"
    /\ hist[i].calls[1].ret = Thrown(NegativeOperand)
    /\ hist[i].calls[2].op = "result"
    /\ hist[i].calls[2].ret = Value(hist[i].calls[1].pre)
    /\ FIsNegative(calc[i])

\* C2: the accumulator, and what every result() returned, is the composition
\* in call order of the transforms of the mutating calls completed until
\* then, applied to the constructor argument (0 when omitted); calls that
\* threw and result() calls do not count.
C2_ResultIsComposition ==
  \A i \in DOMAIN hist :
    /\ calc[i] = Composed(hist[i].calls, Len(hist[i].calls), Constructed(hist[i].init))
    /\ \A k \in DOMAIN hist[i].calls :
         hist[i].calls[k].op = "result" =>
           hist[i].calls[k].ret =
             Value(Composed(hist[i].calls, k - 1, Constructed(hist[i].init)))

\* A chain on the default accumulator 0 whose order matters: subtract(-0.3)
\* then multiply(2), and the result() after them returned 0.6.
C2_Witness ==
  \E i \in DOMAIN hist :
    /\ hist[i].init = Omitted
    /\ Len(hist[i].calls) = 3
    /\ hist[i].calls[1].op = "subtract"
    /\ hist[i].calls[1].args = << Lit(TRUE, 3, 1) >>
    /\ hist[i].calls[2].op = "multiply"
    /\ hist[i].calls[2].args = << Lit(FALSE, 2, 0) >>
    /\ hist[i].calls[3].op = "result"
    /\ hist[i].calls[3].ret = Value(Num(Lit(FALSE, 6, 1)))

\* C3: every mutating call that completes returns the instance it was made
\* on, and no call makes an instance: the instances are those constructed.
C3_MutatingCallReturnsSameInstance ==
  /\ Len(calc) = Len(hist)
  /\ \A i \in DOMAIN hist : \A k \in DOMAIN hist[i].calls :
       Completed(hist[i].calls[k]) => hist[i].calls[k].ret = This(i)

\* Two chained mutating calls both returned the instance they were made on.
C3_Witness ==
  \E i \in DOMAIN hist :
    /\ Len(hist[i].calls) = 2
    /\ hist[i].calls[1].op = "add"
    /\ hist[i].calls[2].op = "sqrt"
    /\ hist[i].calls[1].ret = This(i)
    /\ hist[i].calls[2].ret = This(i)
    /\ calc[i] # hist[i].calls[1].pre

\* TRUE iff the number x is less than 0.
Negative(x) == x.s = 1 /\ x.m # << >>

\* C12: sqrt() throws the negative-operand error exactly when the accumulator
\* it finds is less than 0, leaving it as it is; on every other accumulator,
\* 0 included, it returns the instance and leaves the square root.
C12_SqrtThrowsIffNegative ==
  \A i \in DOMAIN hist : \A k \in DOMAIN hist[i].calls :
    LET c == hist[i].calls[k]
    IN  c.op = "sqrt" =>
          IF Negative(c.pre)
          THEN c.ret = Thrown(NegativeOperand) /\ After(i, k) = c.pre
          ELSE /\ c.ret = This(i)
               /\ After(i, k) = MathSqrt(c.pre)
               /\ ~Negative(After(i, k))
               /\ FIsZero(c.pre) => FIsZero(After(i, k))

\* new Calculator().sqrt().subtract(4).sqrt().abs().sqrt().result(): sqrt()
\* succeeded on 0, threw on -4 and left 2 on 4.
C12_Witness ==
  \E i \in DOMAIN hist :
    /\ hist[i].init = Omitted
    /\ Len(hist[i].calls) = 6
    /\ hist[i].calls[1].op = "sqrt"
    /\ hist[i].calls[1].ret = This(i)
    /\ FIsZero(hist[i].calls[2].pre)
    /\ hist[i].calls[3].op = "sqrt"
    /\ hist[i].calls[3].pre = Num(Lit(TRUE, 4, 0))
    /\ hist[i].calls[3].ret = Thrown(NegativeOperand)
    /\ hist[i].calls[5].op = "sqrt"
    /\ hist[i].calls[5].ret = This(i)
    /\ hist[i].calls[6].ret = Value(Num(Lit(FALSE, 2, 0)))

\* C13: add, subtract, multiply, power, abs, round, ceil and floor
\* never throw, divide throws only on a divisor of 0, and the only errors any
\* call on a Calculator throws are the division by zero of divide and the
\* negative operand of sqrt.
C13_OnlyTwoErrors ==
  \A i \in DOMAIN hist : \A k \in DOMAIN hist[i].calls :
    LET c == hist[i].calls[k]
    IN  c.ret.kind = "throw" =>
          \/ c.op = "divide" /\ c.args[1].n = 0 /\ c.ret = Thrown(DivisionByZero)
          \/ c.op = "sqrt" /\ c.ret = Thrown(NegativeOperand)

\* C14: divide(num, precision) leaves preciseDivide(accumulator, num,
\* precision), with the precision 10 when it is omitted, and returns the
\* instance; it throws what preciseDivide throws, which is the division by
\* zero, exactly when num is 0, and then leaves the accumulator as it is.
C14_DivideForwardsToPreciseDivide ==
  \A i \in DOMAIN hist : \A k \in DOMAIN hist[i].calls :
    LET c == hist[i].calls[k]
        r == preciseDivide(c.pre, Num(c.args[1]), OrDefault(c.args[2], DefaultPrecision))
    IN  c.op = "divide" =>
          /\ r.ok <=> c.args[1].n # 0
          /\ IF r.ok THEN c.ret = This(i) /\ After(i, k) = r.val
             ELSE c.ret = Thrown(DivisionByZero) /\ After(i, k) = c.pre

\* divide(2, 0) on 0.1 left 0, which is not the 0.05 of the default precision.
C14_Witness ==
  \E i \in DOMAIN hist :
    /\ hist[i].init = Given(Lit(FALSE, 1, 1))
    /\ Len(hist[i].calls) = 1
    /\ hist[i].calls[1].op = "divide"
    /\ hist[i].calls[1].args = << Lit(FALSE, 2, 0), Given(0) >>
    /\ FIsZero(calc[i])
    /\ preciseDivide(Num(Lit(FALSE, 1, 1)), Num(Lit(FALSE, 2, 0)), DefaultPrecision)
         = Return(Num(Lit(FALSE, 5, 2)))

(***************************************************************************)
(* Properties of scripted chains, over SpecChain.                          *)
(***************************************************************************)
\* TRUE iff the caller has made exactly the calls of chain, on one instance.
Finished(chain) ==
  /\ budget.scripted
  /\ budget.script = << >>
  /\ Len(hist) = 1
  /\ hist[1].init = chain[1].args[1]
  /\ Len(hist[1].calls) = Len(chain) - 1
  /\ \A k \in DOMAIN hist[1].calls :
       /\ hist[1].calls[k].op = chain[k + 1].op
       /\ hist[1].calls[k].args = chain[k + 1].args

\* 3.6666666667 and 7.6666666667
Decimal36666666667 == DecimalValue(FALSE, BFromDigits(<< 3, 6, 6, 6, 6, 6, 6, 6, 6, 6, 7 >>), 10)
Decimal76666666667 == DecimalValue(FALSE, BFromDigits(<< 7, 6, 6, 6, 6, 6, 6, 6, 6, 6, 7 >>), 10)

\* C15 as stated: calculate(10).add(5).multiply(2).subtract(7).divide(3)
\* .result() returns 3.6666666667, and with divide(3) before multiply(2) the
\* chain returns something else.
C15_DocumentedChainGives36666666667 ==
  /\ Finished(OrderedChain(DocumentedOrder)) => last.ret = Value(Decimal36666666667)
  /\ Finished(OrderedChain(DivideBeforeMultiply)) => last.ret # Value(Decimal36666666667)

\* C15, amended: calculate(10).add(5).multiply(2).subtract(7).divide(3)
\* .result() returns 7.6666666667, and with divide(3) before multiply(2) the
\* chain returns something else, namely 3.
C15_DocumentedChainGives76666666667 ==
  /\ Finished(OrderedChain(DocumentedOrder)) => last.ret = Value(Decimal76666666667)
  /\ Finished(OrderedChain(DivideBeforeMultiply)) =>
       /\ last.ret # Value(Decimal76666666667)
       /\ last.ret = Value(Num(Lit(FALSE, 3, 0)))

\* The documented chain has run and its result() returned 7.6666666667.
C15_Witness ==
  /\ Finished(OrderedChain(DocumentedOrder))
  /\ last.op = "result"
  /\ last.ret = Value(Decimal76666666667)
  /\ hist[1].calls[4].op = "divide"
  /\ hist[1].calls[4].pre = Num(Lit(FALSE, 23, 0))

\* The number |x|.
Magnitude0(x) == [s |-> 0, m |-> x.m, e |-> x.e]

\* C16: abs() leaves |v| >= 0 for the accumulator v it finds and returns the
\* instance; an abs() right after an abs() changes nothing; and
\* Calculator(5).abs().abs() and Calculator(-5).abs() give 5.
C16_AbsIdempotent ==
  /\ \A i \in DOMAIN hist : \A k \in DOMAIN hist[i].calls :
       LET c == hist[i].calls[k]
       IN  c.op = "abs" =>
             /\ c.ret = This(i)
             /\ After(i, k) = Magnitude0(c.pre)
             /\ ~Negative(After(i, k))
             /\ (k > 1 /\ hist[i].calls[k - 1].op = "abs") => After(i, k) = c.pre
  /\ Finished(AbsChain(Lit(FALSE, 5, 0))) => last.ret = Value(Num(Lit(FALSE, 5, 0)))
  /\ Finished(AbsChain(Lit(TRUE, 5, 0))) => last.ret = Value(Num(Lit(FALSE, 5, 0)))
  /\ Finished(DemoChains[5]) => last.ret = Value(Num(Lit(FALSE, 5, 0)))

\* new Calculator(-5).abs().abs().result() returned 5: the first abs() found
\* -5, the second 5.
C16_Witness ==
  /\ Finished(AbsChain(Lit(TRUE, 5, 0)))
  /\ hist[1].calls[1].pre = Num(Lit(TRUE, 5, 0))
  /\ hist[1].calls[2].pre = Num(Lit(FALSE, 5, 0))
  /\ last.ret = Value(Num(Lit(FALSE, 5, 0)))

\* C18: format(decimals, removeTrailingZeros) returns what formatNumber
\* returns, or throws what it throws, for the accumulator and the same
\* arguments, 2 and false when omitted; and
\* calculate(1234.5678).add(8765.4321).format(2) returns "10000.00".
C18_FormatIsFormatNumber ==
  /\ \A i \in DOMAIN hist : \A k \in DOMAIN hist[i].calls :
       LET c == hist[i].calls[k]
           r == formatNumber(c.pre, Given(OrDefault(c.args[1], 2)),
                             Given(OrDefault(c.args[2], FALSE)))
       IN  c.op = "format" =>
             c.ret = IF r.ok THEN Text(r.val) ELSE Thrown(r.err)
  /\ Finished(DemoChains[2]) =>
       last.ret = Text(<< "1", "0", "0", "0", "0", ".", "0", "0" >>)

\* calculate(1234.5678).add(8765.4321) left 9999.9999 and format(2) returned
\* "10000.00".
C18_Witness ==
  /\ Finished(DemoChains[2])
  /\ last.op = "format"
  /\ last.pre = Num(Lit(FALSE, 99999999, 4))
  /\ last.ret = Text(<< "1", "0", "0", "0", "0", ".", "0", "0" >>)

(***************************************************************************)
(* Properties of the accessors, over SpecAccess.                           *)
(***************************************************************************)
\* Some call of each mutating operation can be made now.
MutatingOpsEnabled ==
  /\ CanCall("add", OperandArgs)
  /\ CanCall("subtract", OperandArgs)
  /\ CanCall("multiply", OperandArgs)
  /\ CanCall("divide", DivideArgs)
  /\ CanCall("power", PowerArgs)
  /\ CanCall("sqrt", NoArgs)
  /\ CanCall("abs", NoArgs)
  /\ CanCall("round", DecimalsArgs)
  /\ CanCall("ceil", DecimalsArgs)
  /\ CanCall("floor", DecimalsArgs)

\* C19: result(), format(), toThousands() and toScientific() leave the
\* accumulator as they find it, whether they return or throw; a mutating
\* call made next on the instance is applied to that same value and returns
\* the instance unless it throws; and whatever calls have been made on an
\* instance, a caller that has a call left can make any mutating call on it.
C19_AccessorsLeaveAccumulator ==
  /\ \A i \in DOMAIN hist : \A k \in DOMAIN hist[i].calls :
       LET c == hist[i].calls[k]
       IN  c.op \in Accessors =>
             /\ After(i, k) = c.pre
             /\ c.ret.kind \in { "number", "string", "throw" }
             /\ k < Len(hist[i].calls) =>
                  LET n == hist[i].calls[k + 1]
                  IN  Completed(n) =>
                        /\ n.ret = This(i)
                        /\ After(i, k + 1) = Transform(n.op, n.args, c.pre)
  /\ (calc # << >> /\ ~budget.scripted /\ budget.calls > 0) => MutatingOpsEnabled

\* After result() and format(), add(2) was made on the value the instance was
\* constructed with, -4, and left -2.
C19_Witness ==
  /\ Len(hist) = 1
  /\ hist[1].init = Given(Lit(TRUE, 4, 0))
  /\ Len(hist[1].calls) = 3
  /\ hist[1].calls[1].op = "result"
  /\ hist[1].calls[2].op = "format"
  /\ hist[1].calls[3].op = "add"
  /\ hist[1].calls[3].args = << Lit(FALSE, 2, 0) >>
  /\ hist[1].calls[3].pre = Num(Lit(TRUE, 4, 0))
  /\ hist[1].calls[3].ret = This(1)
  /\ calc[1] = Num(Lit(TRUE, 2, 0))

(***************************************************************************)
(* Properties of several instances, over SpecShare.                        *)
(***************************************************************************)
\* The accumulator of instance i is the one its own constructor argument and
\* its own completed mutating calls give.
OwnHistoryOnly(i) ==
  calc[i] = Composed(hist[i].calls, Len(hist[i].calls), Constructed(hist[i].init))

\* A step leaves every instance but the one constructed or called as it is.
OthersUnchanged ==
  /\ DOMAIN calc \subseteq DOMAIN calc'
  /\ \A j \in DOMAIN calc :
       j # last'.inst => calc'[j] = calc[j] /\ hist'[j] = hist[j]

\* C20: instances share no state.  Whatever the interleaving of constructions
\* and calls on two instances, a step changes only the instance it is made
\* on, and the accumulator of each instance is the one its own initial value
\* and its own calls give.
C20_InstancesShareNoState ==
  /\ [](\A i \in DOMAIN calc : OwnHistoryOnly(i))
  /\ [][OthersUnchanged]_vars

\* new Calculator(10) and calculate(-4), called in turn: add(5), abs() and
\* result() on the first, multiply(2), divide(3) and result() on the second.
C20_Witness ==
  /\ Len(hist) = 2
  /\ hist[1].init = Given(Lit(FALSE, 10, 0))
  /\ hist[2].init = Given(Lit(TRUE, 4, 0))
  /\ Len(hist[1].calls) = 3
  /\ Len(hist[2].calls) = 3
  /\ hist[1].calls[1].op = "add"
  /\ hist[2].calls[1].op = "multiply"
  /\ hist[1].calls[2].op = "abs"
  /\ hist[2].calls[2].op = "divide"
  /\ hist[2].calls[2].pre = Num(Lit(TRUE, 8, 0))
  /\ hist[1].calls[3].ret = Value(Num(Lit(FALSE, 15, 0)))
  /\ last.inst = 2
  /\ last.ret = Value(DecimalValue(TRUE, BFromDigits(<< 2, 6, 6, 6, 6, 6, 6, 6, 6, 6, 7 >>), 10))

(***************************************************************************)
(* Properties of the rounding steps, over SpecScale.                       *)
(***************************************************************************)
\* 10^max(da, db)
FactorOf(a, b) == MathPow10(Max(getDecimalPlaces(a), getDecimalPlaces(b)))

\* (round(a * factor) + round(b * factor)) / factor
SeparatelyRoundedSum(a, b, factor) ==
  FDiv(FAdd(MathRound(FMul(a, factor)), MathRound(FMul(b, factor))), factor)

\* (round(a * factor) - round(b * factor)) / factor
SeparatelyRoundedDifference(a, b, factor) ==
  FDiv(FSub(MathRound(FMul(a, factor)), MathRound(FMul(b, factor))), factor)

SeparatelyRounded(op, a, b) ==
  IF op = "add" THEN SeparatelyRoundedSum(a, b, FactorOf(a, b))
  ELSE SeparatelyRoundedDifference(a, b, FactorOf(a, b))

\* TRUE iff x prints without an exponent and |x * factor| < 10^14.
PlainAndBelow1e14(x, factor) ==
  /\ IndexOf(NumberToString(x), "e") = -1
  /\ FIsNegative(FSub(FAbs(FMul(x, factor)), MathPow10(14)))

\* C21 as stated: what add(b) and subtract(b) leave for the accumulator a is
\* (round(a*factor) + round(b*factor))/factor, respectively
\* (round(a*factor) - round(b*factor))/factor, for every a and b.
C21_OperandsRoundedSeparately ==
  \A i \in DOMAIN hist : \A k \in DOMAIN hist[i].calls :
    LET c == hist[i].calls[k]
    IN  c.op \in { "add", "subtract" } =>
          FEq(After(i, k), SeparatelyRounded(c.op, c.pre, Num(c.args[1])))

\* C21, amended: the scaled operands are combined first and the combination
\* is rounded once; the result is (round(a*factor) +- round(b*factor))/factor
\* when both operands print without an exponent and both scaled operands are
\* below 10^14 in magnitude.
C21_RoundedOnceAfterCombining ==
  \A i \in DOMAIN hist : \A k \in DOMAIN hist[i].calls :
    LET c == hist[i].calls[k]
    IN  ( /\ c.op \in { "add", "subtract" }
          /\ PlainAndBelow1e14(c.pre, FactorOf(c.pre, Num(c.args[1])))
          /\ PlainAndBelow1e14(Num(c.args[1]), FactorOf(c.pre, Num(c.args[1]))) )
        => FEq(After(i, k), SeparatelyRounded(c.op, c.pre, Num(c.args[1])))

\* calculate(1.005).add(1) left 2.005: 1.005 * 1000 is 1004.9999999999999,
\* which the rounding of the combination brings back to 2005.
C21_Witness ==
  /\ Finished(AddChain(Lit(FALSE, 1005, 3), Lit(FALSE, 1, 0)))
  /\ FMul(Num(Lit(FALSE, 1005, 3)), MathPow10(3)) # FInt(1005)
  /\ calc[1] = Num(Lit(FALSE, 2005, 3))

\* x rounded to the nearest integer, a tie going away from zero.
RoundHalfAwayFromZero(x) ==
  IF x.s = 0 THEN MathRound(x) ELSE FNeg(MathRound(FNeg(x)))

\* C22: the rounding steps of preciseAdd, preciseSubtract, preciseMultiply and
\* preciseDivide round a tie away from zero, for negative as for positive
\* values: each returns what it would with such a rounding in the place of
\* its own.
C22_TiesAwayFromZero ==
  LET a == Num(args[1])
      b == Num(args[2])
  IN  /\ call.fn = "preciseAdd" =>
           FEq(call.out.val,
               FDiv(RoundHalfAwayFromZero(FAdd(FMul(a, FactorOf(a, b)),
                                               FMul(b, FactorOf(a, b)))),
                    FactorOf(a, b)))
      /\ call.fn = "preciseSubtract" =>
           FEq(call.out.val,
               FDiv(RoundHalfAwayFromZero(FSub(FMul(a, FactorOf(a, b)),
                                               FMul(b, FactorOf(a, b)))),
                    FactorOf(a, b)))
      /\ (call.fn = "preciseDivide" /\ call.out.ok) =>
           FEq(call.out.val,
               FDiv(RoundHalfAwayFromZero(FMul(FDiv(a, b), MathPow10(call.precision))),
                    MathPow10(call.precision)))

(***************************************************************************)
(* Properties of retry                                                     *)
(***************************************************************************)
Events(kind) == SelectSeq(log, LAMBDA e : e.ev = kind)

Settled == promise.state # "pending"

\* The attempts so far: fn was called at most retries + 1 times, one call at
\* a time, the promise is fulfilled exactly by the first success, after which
\* nothing happens, and rejected exactly when retries + 1 attempts failed,
\* with the error of the last of them.
AttemptsInTurn ==
  pc # "idle" =>
    LET calls == Events("fn")
        fails == Events("fail")
        wins == Events("resolve")
    IN /\ Len(calls) <= options.retries + 1
       /\ \A i \in 1..Len(calls) : calls[i].n = i - 1
       /\ Len(calls) - Len(fails) - Len(wins) = (IF pc = "fn" THEN 1 ELSE 0)
       /\ Len(wins) <= 1
       /\ (promise.state = "fulfilled") = (Len(wins) = 1)
       /\ Len(wins) = 1 =>
            /\ log[Len(log)] = wins[1]
            /\ promise.value = wins[1].x
            /\ pc = "done"
       /\ (promise.state = "rejected") = (Len(fails) = options.retries + 1)
       /\ promise.state = "rejected" => promise.value = fails[Len(fails)].x

\* C23: retry(fn, { retries: n }) runs the attempts one after another and
\* calls fn at most n + 1 times; it resolves with the first success, with no
\* attempt after it, and rejects with the error of the last attempt when all
\* n + 1 attempts fail; once called, it always settles.
C23_RetrySettlesWithinAttempts ==
  /\ []AttemptsInTurn
  /\ (pc # "idle") ~> Settled

\* All three attempts failed, the last with another error than the first.
C23_Witness ==
  /\ promise = [state |-> "rejected", value |-> "E2"]
  /\ Len(Events("fail")) = 3
  /\ Events("fail")[1].x = "E1"

\* C24: onRetry is called exactly once after each failed attempt that is
\* followed by another, with the error of that attempt and the numbers 1, 2,
\* ... in turn; the delay is waited after onRetry and before the next attempt;
\* there is neither an onRetry nor a delay after the final failure or after a
\* success.
C24_OnRetryBetweenAttempts ==
  pc # "idle" =>
    /\ \A i \in 1..Len(log) :
         /\ log[i].ev = "fail" /\ log[i].n < options.retries =>
              LET s == IF options.onRetry THEN i + 2 ELSE i + 1
              IN /\ options.onRetry =>
                      log[i + 1] = Event("onRetry", log[i].t, log[i].n + 1, log[i].x)
                 /\ log[s] = Event("sleep", log[i].t, options.delay, "")
                 /\ s < Len(log) =>
                      /\ log[s + 1].ev = "fn"
                      /\ log[s + 1].n = log[i].n + 1
                      /\ log[s + 1].t >= log[i].t + options.delay
         /\ log[i].ev = "fail" /\ log[i].n >= options.retries /\ i < Len(log) =>
              log[i + 1].ev = "reject"
         /\ log[i].ev \in { "resolve", "reject" } => i = Len(log)
         /\ log[i].ev = "onRetry" => options.onRetry /\ log[i - 1].ev = "fail"
         /\ log[i].ev = "sleep" => log[i - 1].ev \in { "fail", "onRetry" }
    /\ LET calls == Events("onRetry")
       IN \A k \in 1..Len(calls) : calls[k].n = k

\* onRetry was called twice, for two different errors, and the third attempt
\* has begun after the second delay.
C24_Witness ==
  /\ pc = "fn"
  /\ options.onRetry /\ options.delay > 0
  /\ Len(Events("onRetry")) = 2
  /\ Events("onRetry")[1].x # Events("onRetry")[2].x
  /\ log[Len(log)] = Event("fn", now, 2, "")

(***************************************************************************)
(* Properties of debounce and throttle                                     *)
(***************************************************************************)
\* The statement of C25 with the execution exactly wait after the call and
\* once for every burst: func is executed only directly after a call made
\* exactly wait earlier, with that call's argument; calls that follow one
\* another with no execution between them are less than wait apart; the
\* timer of the last call is pending until wait after it, and no other.
C25_ExecutedExactlyWaitAfter ==
  ~options.immediate =>
    /\ Cardinality(timers) <= 1
    /\ \A i \in 1..Len(log) :
         /\ log[i].ev = "exec" =>
              /\ i > 1
              /\ log[i - 1] = Event("call", log[i].t - options.wait, 0, log[i].x)
         /\ log[i].ev = "call" /\ i < Len(log) /\ log[i + 1].ev = "call" =>
              log[i + 1].t - log[i].t < options.wait
    /\ Len(log) > 0 /\ log[Len(log)].ev = "call" =>
         /\ now <= log[Len(log)].t + options.wait
         /\ timers = { Timer(timeout, log[Len(log)].t + options.wait, log[Len(log)].x) }
    /\ (Len(log) = 0 \/ log[Len(log)].ev = "exec") => timers = { } /\ timeout = NoTimer

\* C25: with immediate false, func is never executed while calls arrive less
\* than wait apart; it is executed only for the call made last, with that
\* call's argument, no sooner than wait after it and at most once (a call
\* made before the timer has fired replaces the timer); at most one timer is
\* pending at any time, the one of the last call.
C25_DebounceRunsOnceAfterBurst ==
  ~options.immediate =>
    /\ Cardinality(timers) <= 1
    /\ \A i \in 1..Len(log) :
         log[i].ev = "exec" =>
           /\ i > 1
           /\ log[i - 1].ev = "call"
           /\ log[i - 1].x = log[i].x
           /\ log[i].t >= log[i - 1].t + options.wait
    /\ Len(log) > 0 /\ log[Len(log)].ev = "call" =>
         timers = { Timer(timeout, log[Len(log)].t + options.wait, log[Len(log)].x) }
    /\ (Len(log) = 0 \/ log[Len(log)].ev = "exec") => timers = { } /\ timeout = NoTimer

\* A call, a second call wait or more after it and before the first timer
\* has fired, and the one execution, with the second call's argument.
C25_Witness ==
  /\ ~options.immediate
  /\ Len(log) = 3
  /\ log[1].ev = "call" /\ log[2].ev = "call"
  /\ log[2].t >= log[1].t + options.wait
  /\ log[1].x # log[2].x
  /\ log[3].ev = "exec" /\ log[3].x = log[2].x
  /\ log[3].t >= log[2].t + options.wait

Executions == SelectSeq(log, LAMBDA e : e.ev = "exec")

\* C26: with the default options (leading and trailing), the first call of a
\* throttled function executes func immediately, any two executions of func
\* are at least wait apart, whatever the interleaving of calls and timer
\* firings, and at most one trailing timer is pending at any time.
C26_ThrottleExecutionsWaitApart ==
  options.leading /\ options.trailing =>
    /\ Len(log) > 0 => /\ Len(log) > 1
                       /\ log[1].ev = "call"
                       /\ log[2] = Event("exec", log[1].t, 0, log[1].x)
    /\ \A i, j \in 1..Len(Executions) :
         i < j => Executions[j].t - Executions[i].t >= options.wait
    /\ Cardinality(timers) <= 1

\* A leading execution, a trailing one from the timer of a second call, and
\* a third execution, wait after the trailing one.
C26_Witness ==
  /\ options.leading /\ options.trailing
  /\ Len(Executions) = 3
  /\ Len(log) >= 4
  /\ log[3].ev = "call" /\ log[4].ev = "exec" /\ log[3].t < log[4].t
  /\ Executions[3].t = Executions[2].t + options.wait

(***************************************************************************)
(* Properties of the storage with expiry                                   *)
(***************************************************************************)
\* The writes (set, put, remove, a test of the storage or clear) of log[i]'s
\* key before position i.
WritesBefore(i) ==
  { j \in 1..(i - 1) :
      \/ log[j].key = log[i].key /\ log[j].ev \in { "set", "put", "remove", "supported" }
      \/ log[j].ev = "clear" }

LastWriteBefore(i) == CHOOSE j \in WritesBefore(i) : \A k \in WritesBefore(i) : k <= j

\* C27: after setLocalStorageWithExpiry(key, v, s), getLocalStorageWithExpiry(
\* key, d) returns v while the time has not passed the expiry (the time of the
\* set plus s seconds); once it has, the read returns d and removes the key,
\* so that no later read returns the expired value.  A read made without a
\* default has the default null.
C27_ValueUntilExpiryThenDefault ==
  \A i \in 1..Len(log) :
    log[i].ev = "get" /\ WritesBefore(i) # { } /\ log[LastWriteBefore(i)].ev = "set" =>
      LET w == log[LastWriteBefore(i)]
      IN IF NumberGreater(GetTime(log[i].t), ExpiryOf(w.t, w.seconds))
         THEN log[i].out = DefaultTo(log[i].value, JSNull) /\ ~log[i].kept
         ELSE log[i].out = w.value /\ log[i].kept

(***************************************************************************)
(* Properties of the version functions                                     *)
(***************************************************************************)
\* A version that is nothing but numbers and delimiters.
PlainVersion(version, delimiter) ==
  \A i \in 1..Len(version) : version[i] \in Digits \cup { delimiter }

\* The delimiter-separated numeric components of a plain version.
ComponentsOf(version, delimiter) ==
  LET texts == Split(version, { delimiter })
  IN [i \in 1..Len(texts) |-> PartNumber(texts[i])]

\* 1, -1 or 0 as the first differing component says, a missing one being 0.
ByComponents(a, b, delimiter) ==
  ComparePartsFrom(ComponentsOf(a, delimiter), ComponentsOf(b, delimiter), 1)

\* C28: compareVersions(v1, v2) returns only 1, -1 or 0, as the comparison
\* of the delimiter-separated numeric components from left to right says,
\* missing components counting as 0, and compareVersions(a, b) is
\* -compareVersions(b, a), for all options.
C28_ComparesByComponents ==
  \A i \in 1..Len(log) :
    log[i].fn = "compareVersions" =>
      /\ log[i].out \in { 1, -1, 0 }
      /\ log[i].out = -compareVersions(log[i].b, log[i].a, options, log[i].host)
      /\ PlainVersion(log[i].a, options.delimiter)
           /\ PlainVersion(log[i].b, options.delimiter) =>
           log[i].out = ByComponents(log[i].a, log[i].b, options.delimiter)

\* What the version numbers of a comparison under the options are.
PartsUnder(version, o) == parseVersion(cleanVersion(version, o.loose), o.delimiter).parts

\* A condition holds: the comparison operators by compareVersions, "~" for
\* the same major and minor and not lower, "^" for the same major and not
\* lower.
ConditionHolds(version, condition, o, host) ==
  LET comparison == compareVersions(version, condition.version, o, host)
      mine == PartsUnder(version, o)
      theirs == PartsUnder(condition.version, o)
  IN CASE condition.operator = << "=" >> -> comparison = 0
       [] condition.operator = << ">" >> -> comparison > 0
       [] condition.operator = << ">", "=" >> -> comparison >= 0
       [] condition.operator = << "<" >> -> comparison < 0
       [] condition.operator = << "<", "=" >> -> comparison <= 0
       [] condition.operator = << "~" >> ->
            /\ PartAt(mine, 1) = PartAt(theirs, 1)
            /\ PartAt(mine, 2) = PartAt(theirs, 2)
            /\ comparison >= 0
       [] condition.operator = << "^" >> ->
            /\ PartAt(mine, 1) = PartAt(theirs, 1)
            /\ comparison >= 0
       [] OTHER -> FALSE

\* C29: satisfiesVersion(version, range, options) is true exactly when every
\* white-space-separated condition of the range holds, for every setting of
\* the options, loose mode with prefixed versions included.
C29_SatisfiesEveryCondition ==
  \A i \in 1..Len(log) :
    log[i].fn = "satisfiesVersion" =>
      LET conditions == parseRange(log[i].b)
      IN log[i].out =
           \A k \in 1..Len(conditions) : ConditionHolds(log[i].a, conditions[k], options,
                                                      log[i].host)

\* C30: getVersionDiff(a, b) is "same" exactly when compareVersions(a, b) is
\* 0 under the same options, for versions of any number of components, and
\* getVersionDiff(a, b) = getVersionDiff(b, a).
C30_SameExactlyWhenEqual ==
  \A i \in 1..Len(log) :
    log[i].fn = "getVersionDiff" =>
      /\ (log[i].out = "same") = (compareVersions(log[i].a, log[i].b, options,
                                                 log[i].host) = 0)
      /\ log[i].out = getVersionDiff(log[i].b, log[i].a, options)
====
